---------------------------- MODULE Spec2Model ----------------------------
(***************************************************************************)
(* A model of the PortfolioS REST API: the route handlers of the stocks,   *)
(* bonds, cashflow and portfolio routers over the MySQL tables of the      *)
(* schema.                                                                 *)
(*                                                                         *)
(* Numbers.  Every decimal number is an integer count of 10^-5, one tenth  *)
(* of the last decimal place a DECIMAL(15,4) column keeps, so that a       *)
(* request can submit a number finer than the column stores and the        *)
(* column's rounding is visible.  Sums, products and differences are exact *)
(* (MySQL computes them in exact DECIMAL arithmetic); a quotient is kept   *)
(* as the pair of its numerator and denominator.  The binary rounding of   *)
(* JavaScript doubles is not modelled.  The amounts requests submit are    *)
(* a few units of the fourth decimal place, so that every product stays    *)
(* within the integers TLC computes with.                                  *)
(*                                                                         *)
(* Dates.  A date is a day number; today is CURDATE().  Requests submit    *)
(* date-only values.                                                       *)
(*                                                                         *)
(* Handlers.  Each action is one whole request: validation, every          *)
(* statement the handler executes, and the response.  The database is      *)
(* MySQL 8 with its default strict sql_mode (README, Prerequisites): a     *)
(* value outside a column's range is an error, a value with too many       *)
(* decimals is rounded.  Statements fail only for a reason the request     *)
(* itself causes (an undefined bind parameter, a malformed statement, a    *)
(* value out of range).                                                    *)
(***************************************************************************)
EXTENDS Integers, Sequences, FiniteSets, TLC

VARIABLES
    stocks,     \* table stocks: id -> row
    bonds,      \* table bonds: id -> row
    cashflow,   \* table cashflow: id -> row
    nextId,     \* AUTO_INCREMENT counter of each table
    today,      \* CURDATE(), a day number
    req,        \* the request handled last
    resp,       \* the response sent to it
    deleted,    \* of each table, the ids a DELETE has answered 200 for
    inflight,   \* of each request being handled, the statement it awaits
    server,     \* the server process: its start-up, its connection, table users
    dashboard   \* the Dashboard component: its state and its two requests

vars == <<stocks, bonds, cashflow, nextId, today, req, resp, deleted, inflight,
          server, dashboard>>
tables == <<stocks, bonds, cashflow, nextId>>

---------------------------------------------------------------------------
(* Bounds of the model *)

\* ids a table hands out before POST stops being modelled
MaxId == 2
\* rows of the bonds and cashflow tables where all three tables are modelled
MaxOther == 1
\* the last day the clock advances to
MaxDay == 3
\* requests handled at a time
MaxRequests == 2

---------------------------------------------------------------------------
(* Program constants *)

SINGLE_USER_ID == 1

\* model units in one unit of the 4th decimal place of DECIMAL(15,4)
DecimalStep == 10
\* the number 1 in model units
One == 100000
\* the largest value of coupon_rate DECIMAL(5,4): 9.9999
CouponColumnMax == 999990
\* Joi.number().max(100) of couponRate
CouponSchemaMax == 10000000

\* alert thresholds of /api/portfolio/alerts
AlertPercent == 20
HighAlertPercent == 50
AlertDays == 30
HighAlertDays == 7
\* window of /api/bonds/upcoming-maturities
UpcomingDays == 90
\* window of the recent cashflow of /overview
RecentDays == 30
\* windows of /api/cashflow/summary
WeeklyDays == 7
MonthlyDays == 30
QuarterlyDays == 90
YearlyDays == 365

---------------------------------------------------------------------------
(* Values *)

\* SQL NULL in a nullable DECIMAL column (no number stored is negative)
NULL == -1

\* a request body: a function from its keys to their values
EmptyBody == <<>>

\* a number written to a DECIMAL(15,4) column is rounded to 4 decimals
ToDecimal(v) == ((v + DecimalStep \div 2) \div DecimalStep) * DecimalStep

\* mysql2 returns a DECIMAL column as the string of its digits and parseFloat
\* gives its number: the value is the same (a response that passes a column
\* on without parseFloat carries the same digits, as a string)
ParseFloat(v) == v

COALESCE(a, b) == IF a = NULL THEN b ELSE a

Abs(x) == IF x < 0 THEN -x ELSE x

RECURSIVE SumOver(_, _)
\* SUM over the rows of a table of f[id]; 0 stands for the NULL of an empty
\* table, which every handler maps to 0 with (x || 0)
SumOver(f, ids) ==
    IF ids = {} THEN 0
    ELSE LET i == CHOOSE x \in ids : TRUE
         IN f[i] + SumOver(f, ids \ {i})

\* the value of key k of body b, v when the body does not have it
Field(b, k, v) == IF k \in DOMAIN b THEN b[k] ELSE v

\* db.execute throws when a bind parameter is undefined (mysql2)
BindsUndefined(b, keys) == \E k \in keys : k \notin DOMAIN b

\* The first failing key of a Joi object schema: keys are validated in the
\* order of the schema, unknown keys after them (abortEarly).
FirstErrorMutant(order, errs, b) ==
    LET bad == {i \in 1..Len(order) : errs[order[i]] # ""}
        known == {order[i] : i \in 1..Len(order)}
    IN IF bad # {}
       THEN LET i == CHOOSE x \in bad : \A y \in bad : x >= y
            IN <<order[i], errs[order[i]]>>
       ELSE IF DOMAIN b \subseteq known THEN <<>>
       ELSE <<"body", "object.unknown">>
FirstError(order, errs, b) ==
    LET bad == {i \in 1..Len(order) : errs[order[i]] # ""}
        known == {order[i] : i \in 1..Len(order)}
    IN IF bad # {}
       THEN LET i == CHOOSE x \in bad : \A y \in bad : x <= y
            IN <<order[i], errs[order[i]]>>
       ELSE IF DOMAIN b \subseteq known THEN <<>>
       ELSE <<"body", "object.unknown">>

Required(b, k) == IF k \in DOMAIN b THEN "" ELSE "any.required"
Positive(b, k) == IF k \in DOMAIN b /\ b[k] <= 0 THEN "number.positive" ELSE ""
NonEmpty(b, k) == IF k \in DOMAIN b /\ b[k] = "" THEN "string.empty" ELSE ""
First(a, c) == IF a # "" THEN a ELSE c

---------------------------------------------------------------------------
(* Stocks: backend/routes/stocks.js *)

StockSymbols == <<"AAA", "BBB">>
SymbolRank(s) == CHOOSE i \in 1..Len(StockSymbols) : StockSymbols[i] = s

stockSchemaOrder ==
    <<"symbol", "companyName", "quantity", "purchasePrice", "purchaseDate",
      "sector", "notes">>

stockSchema(b) ==
    FirstError(stockSchemaOrder,
        [k \in {"symbol", "companyName", "quantity", "purchasePrice",
                "purchaseDate", "sector", "notes"} |->
            CASE k = "symbol" -> First(Required(b, k), NonEmpty(b, k))
              [] k = "companyName" -> First(Required(b, k), NonEmpty(b, k))
              [] k = "quantity" -> First(Required(b, k), Positive(b, k))
              [] k = "purchasePrice" -> First(Required(b, k), Positive(b, k))
              [] k = "purchaseDate" -> Required(b, k)
              [] k = "sector" -> NonEmpty(b, k)
              [] k = "notes" -> NonEmpty(b, k)], b)

updateStockSchemaOrder ==
    <<"quantity", "purchasePrice", "currentPrice", "sector", "notes">>

\* a schema that lets unknown keys through
updateStockSchemaMutant(b) ==
    FirstError(updateStockSchemaOrder,
        [k \in {"quantity", "purchasePrice", "currentPrice", "sector", "notes"} |->
            IF k \in {"sector", "notes"} THEN NonEmpty(b, k) ELSE Positive(b, k)],
        [k \in DOMAIN b \cap {"quantity", "purchasePrice", "currentPrice", "sector", "notes"}
            |-> b[k]])
updateStockSchema(b) ==
    FirstError(updateStockSchemaOrder,
        [k \in {"quantity", "purchasePrice", "currentPrice", "sector", "notes"} |->
            CASE k = "quantity" -> Positive(b, k)
              [] k = "purchasePrice" -> Positive(b, k)
              [] k = "currentPrice" -> Positive(b, k)
              [] k = "sector" -> NonEmpty(b, k)
              [] k = "notes" -> NonEmpty(b, k)], b)

\* the rows of user 1
UserStocksMutant == DOMAIN stocks
UserStocks == {i \in DOMAIN stocks : stocks[i].user_id = SINGLE_USER_ID}

\* The percentage a / b * 100, kept as the numerator and the denominator of
\* its quotient.  With b = 0 it is no number: NULL in MySQL, NaN or Infinity
\* in JavaScript.
Percent(a, b) == [num |-> a, den |-> b]
NoNumber(q) == q.den = 0
\* the number 0 as a percentage
Zero == [num |-> 0, den |-> 1]
\* parseFloat(q || 0) of a column that holds a percentage
PercentOrZero(q) == IF NoNumber(q) THEN Zero ELSE q
\* a percentage against a whole number of percent
PercentAtLeast(q, n) == ~NoNumber(q) /\ Abs(q.num) * 100 >= n * Abs(q.den)
PercentPositive(q) == ~NoNumber(q) /\ q.num * q.den > 0
\* |p| >= |q|
AbsPercentGeq(p, q) == Abs(p.num) * Abs(q.den) >= Abs(q.num) * Abs(p.den)

\* the stock of the 201 response, built of the row selected back
StockJson(r) ==
    [id |-> r.id, symbol |-> r.symbol, companyName |-> r.company_name,
     quantity |-> r.quantity,
     purchasePrice |-> ParseFloat(r.purchase_price),
     currentPrice |-> ParseFloat(r.current_price),
     purchaseDate |-> r.purchase_date, sector |-> r.sector, notes |-> r.notes]

\* a stock of the list, with the columns the SELECT computes
StockListJson(r) ==
    LET price == COALESCE(r.current_price, r.purchase_price)
    IN [id |-> r.id, symbol |-> r.symbol, companyName |-> r.company_name,
        quantity |-> r.quantity,
        purchasePrice |-> ParseFloat(r.purchase_price),
        currentPrice |-> ParseFloat(price),
        currentValue |-> ParseFloat(r.quantity * price),
        unrealizedGainLoss |-> ParseFloat(r.quantity * (price - r.purchase_price)),
        percentageChange |->
            PercentOrZero(Percent(price - r.purchase_price, r.purchase_price)),
        purchaseDate |-> r.purchase_date, sector |-> r.sector, notes |-> r.notes,
        updatedAt |-> r.updated_at]

\* ORDER BY symbol ASC: the sequences of the ids in that order
StocksBySymbol ==
    {s \in [1..Cardinality(UserStocks) -> UserStocks] :
        /\ \A i, j \in DOMAIN s : i # j => s[i] # s[j]
        /\ \A i, j \in DOMAIN s :
             i < j => SymbolRank(stocks[s[i]].symbol) <= SymbolRank(stocks[s[j]].symbol)}

\* the table a DELETE route deletes from
DeleteRoutes ==
    [stocks |-> "DELETE /api/stocks/:id", bonds |-> "DELETE /api/bonds/:id",
     cashflow |-> "DELETE /api/cashflow/:id"]

\* the requests being handled: none awaits a statement
Slots == 1..MaxRequests
Idle == [pc |-> "idle"]

\* res.status(status).json(body), the one response of a request
Reply(r, status, body) ==
    /\ req' = r
    /\ resp' = [status |-> status, body |-> body]
    /\ deleted' = [t \in DOMAIN deleted |->
                     IF r.op = DeleteRoutes[t] /\ status = 200
                     THEN deleted[t] \cup {r.id} ELSE deleted[t]]
    /\ UNCHANGED <<server, dashboard>>

\* the response of a handler that runs with no other request between its
\* statements
Respond(r, status, body) == Reply(r, status, body) /\ UNCHANGED inflight

\* a request: its route, its :id, its body (or query), the day it is made
Request(op, id, body) == [op |-> op, id |-> id, body |-> body, day |-> today]

\* router.get('/')
GetStocks ==
    /\ \E s \in StocksBySymbol :
         Respond(Request("GET /api/stocks", 0, EmptyBody), 200,
                 [stocks |-> [i \in DOMAIN s |-> StockListJson(stocks[s[i]])]])
    /\ UNCHANGED <<tables, today>>

InsertedStockMutant(b, id) ==
    [id |-> id, user_id |-> SINGLE_USER_ID, symbol |-> b.symbol,
     company_name |-> b.companyName,
     quantity |-> ToDecimal(b.quantity),
     purchase_price |-> ToDecimal(b.purchasePrice),
     current_price |-> 2 * ToDecimal(b.purchasePrice),
     purchase_date |-> b.purchaseDate,
     sector |-> b.sector, notes |-> b.notes, updated_at |-> today]
InsertedStock(b, id) ==
    [id |-> id, user_id |-> SINGLE_USER_ID, symbol |-> b.symbol,
     company_name |-> b.companyName,
     quantity |-> ToDecimal(b.quantity),
     purchase_price |-> ToDecimal(b.purchasePrice),
     current_price |-> ToDecimal(b.purchasePrice),
     purchase_date |-> b.purchaseDate,
     sector |-> b.sector, notes |-> b.notes, updated_at |-> today]

\* SELECT id FROM stocks WHERE user_id = ? AND symbol = ?
ExistingStocksMutant(symbol) == {}
ExistingStocks(symbol) == {i \in UserStocks : stocks[i].symbol = symbol}

\* router.post('/')
PostStock(b) ==
    LET r == Request("POST /api/stocks", 0, b)
        error == stockSchema(b)
        existingStocks == ExistingStocks(b.symbol)
        id == nextId.stocks
    IN
    /\ UNCHANGED <<bonds, cashflow, today>>
    /\ IF error # <<>>
       THEN Respond(r, 400, [message |-> error]) /\ UNCHANGED <<stocks, nextId>>
       ELSE IF existingStocks # {}
       THEN /\ Respond(r, 400, [message |-> "Stock already exists in portfolio"])
            /\ UNCHANGED <<stocks, nextId>>
       ELSE IF BindsUndefined(b, {"sector", "notes"})
       THEN /\ Respond(r, 500, [message |-> "Server error adding stock"])
            /\ UNCHANGED <<stocks, nextId>>
       ELSE /\ stocks' = [i \in DOMAIN stocks \cup {id} |->
                            IF i = id THEN InsertedStock(b, id) ELSE stocks[i]]
            /\ nextId' = [nextId EXCEPT !.stocks = id + 1]
            /\ Respond(r, 201, [message |-> "Stock added successfully",
                                stock |-> StockJson(InsertedStock(b, id))])

\* the column a key of the PUT body names
StockColumn(k) ==
    CASE k = "currentPrice" -> "current_price"
      [] k = "purchasePrice" -> "purchase_price"
      [] OTHER -> k

StockDecimalColumns == {"quantity", "purchase_price", "current_price"}

\* UPDATE stocks SET <column = value of every key>, updated_at = CURRENT_TIMESTAMP
UpdatedStock(row, b) ==
    [c \in DOMAIN row |->
        IF c = "updated_at" THEN today
        ELSE IF \E k \in DOMAIN b : StockColumn(k) = c
        THEN LET k == CHOOSE x \in DOMAIN b : StockColumn(x) = c
             IN IF c \in StockDecimalColumns THEN ToDecimal(b[k]) ELSE b[k]
        ELSE row[c]]

\* router.put('/:id')
PutStock(id, b) ==
    LET r == Request("PUT /api/stocks/:id", id, b)
        error == updateStockSchema(b)
    IN
    /\ UNCHANGED <<bonds, cashflow, nextId, today>>
    /\ IF error # <<>>
       THEN Respond(r, 400, [message |-> error]) /\ UNCHANGED stocks
       ELSE IF id \notin UserStocks
       THEN Respond(r, 404, [message |-> "Stock not found"]) /\ UNCHANGED stocks
       ELSE IF DOMAIN b = {}
       THEN \* SET , updated_at = ... is not a statement: execute throws
            /\ Respond(r, 500, [message |-> "Server error updating stock"])
            /\ UNCHANGED stocks
       ELSE /\ stocks' = [stocks EXCEPT ![id] = UpdatedStock(stocks[id], b)]
            /\ Respond(r, 200, [message |-> "Stock updated successfully"])

\* router.delete('/:id')
DeleteStockMutant(id) ==
    LET r == Request("DELETE /api/stocks/:id", id, EmptyBody)
    IN
    /\ UNCHANGED <<stocks, bonds, cashflow, nextId, today>>
    /\ IF id \notin UserStocks
       THEN Respond(r, 404, [message |-> "Stock not found"])
       ELSE Respond(r, 200, [message |-> "Stock deleted successfully"])
DeleteStock(id) ==
    LET r == Request("DELETE /api/stocks/:id", id, EmptyBody)
    IN
    /\ UNCHANGED <<bonds, cashflow, nextId, today>>
    /\ IF id \notin UserStocks
       THEN Respond(r, 404, [message |-> "Stock not found"]) /\ UNCHANGED stocks
       ELSE /\ stocks' = [i \in DOMAIN stocks \ {id} |-> stocks[i]]
            /\ Respond(r, 200, [message |-> "Stock deleted successfully"])

\* a handler that responds and runs on, to respond again
AwaitMutant(p, held) ==
    /\ inflight' = [inflight EXCEPT ![p] = held]
    /\ Reply(held.r, 200, EmptyBody)
\* A handler awaits each of its statements, and the statements of the other
\* requests run meanwhile.  A request that awaits holds the statement it runs
\* next (pc), itself (r) and what its statements have returned so far.
Await(p, held) ==
    /\ inflight' = [inflight EXCEPT ![p] = held]
    /\ UNCHANGED <<req, resp, deleted, server, dashboard>>
\* the response of a request that awaited
Finish(p, status, body) ==
    /\ Reply(inflight[p].r, status, body)
    /\ inflight' = [inflight EXCEPT ![p] = Idle]

\* router.post('/') up to its first statement: the SELECT of the symbol
PostStockSelect(p, b) ==
    LET r == Request("POST /api/stocks", 0, b)
        error == stockSchema(b)
    IN
    /\ inflight[p] = Idle
    /\ UNCHANGED <<tables, today>>
    /\ IF error # <<>>
       THEN Respond(r, 400, [message |-> error])
       ELSE IF ExistingStocks(b.symbol) # {}
       THEN Respond(r, 400, [message |-> "Stock already exists in portfolio"])
       ELSE Await(p, [pc |-> "INSERT stocks", r |-> r])

\* its second statement: the INSERT
PostStockInsert(p) ==
    LET b == inflight[p].r.body
        id == nextId.stocks
    IN
    /\ inflight[p].pc = "INSERT stocks"
    /\ UNCHANGED <<bonds, cashflow, today>>
    /\ IF BindsUndefined(b, {"sector", "notes"})
       THEN /\ Finish(p, 500, [message |-> "Server error adding stock"])
            /\ UNCHANGED <<stocks, nextId>>
       ELSE /\ stocks' = [i \in DOMAIN stocks \cup {id} |->
                            IF i = id THEN InsertedStock(b, id) ELSE stocks[i]]
            /\ nextId' = [nextId EXCEPT !.stocks = id + 1]
            /\ Await(p, [pc |-> "SELECT stocks", r |-> inflight[p].r, insertId |-> id])

\* its third statement, the SELECT of the row of insertId, and the response
PostStockReselect(p) ==
    LET id == inflight[p].insertId
    IN
    /\ inflight[p].pc = "SELECT stocks"
    /\ UNCHANGED <<tables, today>>
    /\ IF id \in DOMAIN stocks
       THEN Finish(p, 201, [message |-> "Stock added successfully",
                            stock |-> StockJson(stocks[id])])
       ELSE \* newStock[0] is undefined
            Finish(p, 500, [message |-> "Server error adding stock"])

\* router.put('/:id') up to its first statement: the SELECT of the id
PutStockSelect(p, id, b) ==
    LET r == Request("PUT /api/stocks/:id", id, b)
        error == updateStockSchema(b)
    IN
    /\ inflight[p] = Idle
    /\ UNCHANGED <<tables, today>>
    /\ IF error # <<>>
       THEN Respond(r, 400, [message |-> error])
       ELSE IF id \notin UserStocks
       THEN Respond(r, 404, [message |-> "Stock not found"])
       ELSE Await(p, [pc |-> "UPDATE stocks", r |-> r])

\* its second statement, UPDATE stocks ... WHERE id = ? AND user_id = ?, and
\* the response
PutStockUpdate(p) ==
    LET id == inflight[p].r.id
        b == inflight[p].r.body
    IN
    /\ inflight[p].pc = "UPDATE stocks"
    /\ UNCHANGED <<bonds, cashflow, nextId, today>>
    /\ IF DOMAIN b = {}
       THEN /\ Finish(p, 500, [message |-> "Server error updating stock"])
            /\ UNCHANGED stocks
       ELSE /\ stocks' = IF id \in UserStocks
                         THEN [stocks EXCEPT ![id] = UpdatedStock(stocks[id], b)]
                         ELSE stocks
            /\ Finish(p, 200, [message |-> "Stock updated successfully"])

\* router.delete('/:id') up to its first statement: the SELECT of the id
DeleteStockSelect(p, id) ==
    LET r == Request("DELETE /api/stocks/:id", id, EmptyBody)
    IN
    /\ inflight[p] = Idle
    /\ UNCHANGED <<tables, today>>
    /\ IF id \notin UserStocks
       THEN Respond(r, 404, [message |-> "Stock not found"])
       ELSE Await(p, [pc |-> "DELETE stocks", r |-> r])

\* its second statement, DELETE FROM stocks WHERE id = ? AND user_id = ?,
\* and the response
DeleteStockDelete(p) ==
    LET id == inflight[p].r.id
    IN
    /\ inflight[p].pc = "DELETE stocks"
    /\ UNCHANGED <<bonds, cashflow, nextId, today>>
    /\ stocks' = [i \in DOMAIN stocks \ ({id} \cap UserStocks) |-> stocks[i]]
    /\ Finish(p, 200, [message |-> "Stock deleted successfully"])

\* the columns of the summary SELECT over the stocks in ids
StockInvested(ids) ==
    SumOver([i \in ids |-> stocks[i].quantity * stocks[i].purchase_price], ids)
StockCurrentValue(ids) ==
    SumOver([i \in ids |-> stocks[i].quantity
                * COALESCE(stocks[i].current_price, stocks[i].purchase_price)], ids)
StockGainLossMutant(ids) ==
    SumOver([i \in ids |-> stocks[i].quantity
                * COALESCE(stocks[i].current_price, stocks[i].purchase_price)], ids)
StockGainLoss(ids) ==
    SumOver([i \in ids |-> stocks[i].quantity
                * (COALESCE(stocks[i].current_price, stocks[i].purchase_price)
                   - stocks[i].purchase_price)], ids)

\* total_invested > 0 ? (total_gain_loss / total_invested) * 100 : 0
PercentageReturnMutant(gainLoss, invested) == Percent(gainLoss, invested)
PercentageReturn(gainLoss, invested) ==
    IF invested > 0 THEN Percent(gainLoss, invested) ELSE Zero

\* router.get('/summary')
GetStockSummary ==
    /\ Respond(Request("GET /api/stocks/summary", 0, EmptyBody), 200,
         [totalStocks |-> Cardinality(UserStocks),
          totalInvested |-> ParseFloat(StockInvested(UserStocks)),
          currentValue |-> ParseFloat(StockCurrentValue(UserStocks)),
          totalGainLoss |-> ParseFloat(StockGainLoss(UserStocks)),
          percentageReturn |->
              PercentageReturn(StockGainLoss(UserStocks), StockInvested(UserStocks))])
    /\ UNCHANGED <<tables, today>>

---------------------------------------------------------------------------
(* Bonds: backend/routes/bonds.js *)

BondTypes == {"government", "corporate", "municipal", "treasury"}

OneOfMutant(b, k, allowed) == ""
OneOf(b, k, allowed) ==
    IF k \in DOMAIN b /\ b[k] \notin allowed THEN "any.only" ELSE ""
\* Joi.number().min(0).max(100)
CouponRange(b, k) ==
    IF k \notin DOMAIN b THEN ""
    ELSE IF b[k] < 0 THEN "number.min"
    ELSE IF b[k] > CouponSchemaMax THEN "number.max"
    ELSE ""
\* Joi.date().greater('now'): a date-only value is its midnight, which is
\* after now only from tomorrow on
GreaterNow(b, k) ==
    IF k \in DOMAIN b /\ b[k] <= today THEN "date.greater" ELSE ""

bondSchemaOrder ==
    <<"issuer", "bondType", "faceValue", "couponRate", "maturityDate",
      "purchasePrice", "purchaseDate", "rating", "notes">>

bondSchema(b) ==
    FirstError(bondSchemaOrder,
        [k \in {"issuer", "bondType", "faceValue", "couponRate", "maturityDate",
                "purchasePrice", "purchaseDate", "rating", "notes"} |->
            CASE k = "issuer" -> First(Required(b, k), NonEmpty(b, k))
              [] k = "bondType" -> First(Required(b, k), OneOf(b, k, BondTypes))
              [] k = "faceValue" -> First(Required(b, k), Positive(b, k))
              [] k = "couponRate" -> First(Required(b, k), CouponRange(b, k))
              [] k = "maturityDate" -> First(Required(b, k), GreaterNow(b, k))
              [] k = "purchasePrice" -> First(Required(b, k), Positive(b, k))
              [] k = "purchaseDate" -> Required(b, k)
              [] k = "rating" -> NonEmpty(b, k)
              [] k = "notes" -> NonEmpty(b, k)], b)

updateBondSchemaOrder ==
    <<"faceValue", "couponRate", "purchasePrice", "currentPrice", "rating", "notes">>

updateBondSchema(b) ==
    FirstError(updateBondSchemaOrder,
        [k \in {"faceValue", "couponRate", "purchasePrice", "currentPrice",
                "rating", "notes"} |->
            CASE k = "faceValue" -> Positive(b, k)
              [] k = "couponRate" -> CouponRange(b, k)
              [] k = "purchasePrice" -> Positive(b, k)
              [] k = "currentPrice" -> Positive(b, k)
              [] k = "rating" -> NonEmpty(b, k)
              [] k = "notes" -> NonEmpty(b, k)], b)

UserBonds == {i \in DOMAIN bonds : bonds[i].user_id = SINGLE_USER_ID}

\* DATEDIFF(maturity_date, CURDATE())
DaysToMaturity(r) == r.maturity_date - today

\* the bond of the 201 response
BondJson(r) ==
    [id |-> r.id, issuer |-> r.issuer, bondType |-> r.bond_type,
     faceValue |-> ParseFloat(r.face_value),
     couponRate |-> ParseFloat(r.coupon_rate),
     maturityDate |-> r.maturity_date,
     purchasePrice |-> ParseFloat(r.purchase_price),
     currentPrice |-> ParseFloat(r.current_price),
     purchaseDate |-> r.purchase_date, rating |-> r.rating, notes |-> r.notes]

\* a bond of the list; annualCoupon is face_value * coupon_rate / 100, an
\* exact decimal, kept as its count of 10^-12
BondListJson(r) ==
    LET price == COALESCE(r.current_price, r.purchase_price)
    IN [id |-> r.id, issuer |-> r.issuer, bondType |-> r.bond_type,
        faceValue |-> ParseFloat(r.face_value),
        couponRate |-> ParseFloat(r.coupon_rate),
        maturityDate |-> r.maturity_date,
        purchasePrice |-> ParseFloat(r.purchase_price),
        currentPrice |-> ParseFloat(price),
        currentValue |-> ParseFloat(price),
        gainLoss |-> ParseFloat(price - r.purchase_price),
        daysToMaturity |-> DaysToMaturity(r),
        annualCoupon |-> ParseFloat(r.face_value * r.coupon_rate),
        purchaseDate |-> r.purchase_date, rating |-> r.rating, notes |-> r.notes,
        updatedAt |-> r.updated_at]

\* ORDER BY maturity_date ASC of the bonds in ids: every order of the ids
\* that the sort allows (bonds of one maturity date come in any order)
BondsByMaturity(ids) ==
    {s \in [1..Cardinality(ids) -> ids] :
        /\ \A i, j \in DOMAIN s : i # j => s[i] # s[j]
        /\ \A i, j \in DOMAIN s :
             i < j => bonds[s[i]].maturity_date <= bonds[s[j]].maturity_date}

\* router.get('/')
GetBonds ==
    /\ \E s \in BondsByMaturity(UserBonds) :
         Respond(Request("GET /api/bonds", 0, EmptyBody), 200,
                 [bonds |-> [i \in DOMAIN s |-> BondListJson(bonds[s[i]])]])
    /\ UNCHANGED <<tables, today>>

InsertedBond(b, id) ==
    [id |-> id, user_id |-> SINGLE_USER_ID, issuer |-> b.issuer,
     bond_type |-> b.bondType,
     face_value |-> ToDecimal(b.faceValue),
     coupon_rate |-> ToDecimal(b.couponRate),
     maturity_date |-> b.maturityDate,
     purchase_price |-> ToDecimal(b.purchasePrice),
     current_price |-> ToDecimal(b.purchasePrice),
     purchase_date |-> b.purchaseDate,
     rating |-> b.rating, notes |-> b.notes, updated_at |-> today]

\* coupon_rate is DECIMAL(5,4): a rate above 9.9999 is out of range, an error
\* of the statement in strict sql_mode
CouponOutOfRange(b) ==
    "couponRate" \in DOMAIN b /\ ToDecimal(b.couponRate) > CouponColumnMax

\* router.post('/')
PostBond(b) ==
    LET r == Request("POST /api/bonds", 0, b)
        error == bondSchema(b)
        id == nextId.bonds
    IN
    /\ UNCHANGED <<stocks, cashflow, today>>
    /\ IF error # <<>>
       THEN Respond(r, 400, [message |-> error]) /\ UNCHANGED <<bonds, nextId>>
       ELSE IF BindsUndefined(b, {"rating", "notes"}) \/ CouponOutOfRange(b)
       THEN /\ Respond(r, 500, [message |-> "Server error adding bond"])
            /\ UNCHANGED <<bonds, nextId>>
       ELSE /\ bonds' = [i \in DOMAIN bonds \cup {id} |->
                            IF i = id THEN InsertedBond(b, id) ELSE bonds[i]]
            /\ nextId' = [nextId EXCEPT !.bonds = id + 1]
            /\ Respond(r, 201, [message |-> "Bond added successfully",
                                bond |-> BondJson(InsertedBond(b, id))])

BondColumn(k) ==
    CASE k = "faceValue" -> "face_value"
      [] k = "couponRate" -> "coupon_rate"
      [] k = "purchasePrice" -> "purchase_price"
      [] k = "currentPrice" -> "current_price"
      [] OTHER -> k

BondDecimalColumns == {"face_value", "coupon_rate", "purchase_price", "current_price"}

UpdatedBond(row, b) ==
    [c \in DOMAIN row |->
        IF c = "updated_at" THEN today
        ELSE IF \E k \in DOMAIN b : BondColumn(k) = c
        THEN LET k == CHOOSE x \in DOMAIN b : BondColumn(x) = c
             IN IF c \in BondDecimalColumns THEN ToDecimal(b[k]) ELSE b[k]
        ELSE row[c]]

\* router.put('/:id')
PutBond(id, b) ==
    LET r == Request("PUT /api/bonds/:id", id, b)
        error == updateBondSchema(b)
    IN
    /\ UNCHANGED <<stocks, cashflow, nextId, today>>
    /\ IF error # <<>>
       THEN Respond(r, 400, [message |-> error]) /\ UNCHANGED bonds
       ELSE IF id \notin UserBonds
       THEN Respond(r, 404, [message |-> "Bond not found"]) /\ UNCHANGED bonds
       ELSE IF DOMAIN b = {} \/ CouponOutOfRange(b)
       THEN /\ Respond(r, 500, [message |-> "Server error updating bond"])
            /\ UNCHANGED bonds
       ELSE /\ bonds' = [bonds EXCEPT ![id] = UpdatedBond(bonds[id], b)]
            /\ Respond(r, 200, [message |-> "Bond updated successfully"])

\* router.delete('/:id')
DeleteBond(id) ==
    LET r == Request("DELETE /api/bonds/:id", id, EmptyBody)
    IN
    /\ UNCHANGED <<stocks, cashflow, nextId, today>>
    /\ IF id \notin UserBonds
       THEN Respond(r, 404, [message |-> "Bond not found"]) /\ UNCHANGED bonds
       ELSE /\ bonds' = [i \in DOMAIN bonds \ {id} |-> bonds[i]]
            /\ Respond(r, 200, [message |-> "Bond deleted successfully"])

\* the columns of the summary SELECT over the bonds in ids
BondInvested(ids) == SumOver([i \in ids |-> bonds[i].purchase_price], ids)
BondCurrentValue(ids) ==
    SumOver([i \in ids |-> COALESCE(bonds[i].current_price, bonds[i].purchase_price)], ids)
BondGainLoss(ids) ==
    SumOver([i \in ids |-> COALESCE(bonds[i].current_price, bonds[i].purchase_price)
                             - bonds[i].purchase_price], ids)
\* SUM(face_value * coupon_rate / 100), a count of 10^-12
BondAnnualIncome(ids) ==
    SumOver([i \in ids |-> bonds[i].face_value * bonds[i].coupon_rate], ids)
\* AVG(coupon_rate), the quotient of the sum and the count
BondCouponSum(ids) == SumOver([i \in ids |-> bonds[i].coupon_rate], ids)

\* router.get('/summary')
GetBondSummary ==
    /\ Respond(Request("GET /api/bonds/summary", 0, EmptyBody), 200,
         [totalBonds |-> Cardinality(UserBonds),
          totalInvested |-> ParseFloat(BondInvested(UserBonds)),
          currentValue |-> ParseFloat(BondCurrentValue(UserBonds)),
          totalGainLoss |-> ParseFloat(BondGainLoss(UserBonds)),
          totalAnnualIncome |-> ParseFloat(BondAnnualIncome(UserBonds)),
          averageCouponRate |->
              [sum |-> BondCouponSum(UserBonds), count |-> Cardinality(UserBonds)],
          percentageReturn |->
              PercentageReturn(BondGainLoss(UserBonds), BondInvested(UserBonds))])
    /\ UNCHANGED <<tables, today>>

\* maturity_date BETWEEN CURDATE() AND DATE_ADD(CURDATE(), INTERVAL days DAY)
MaturingWithinMutant(days) ==
    {i \in UserBonds : bonds[i].maturity_date <= today + days}
MaturingWithin(days) ==
    {i \in UserBonds : /\ bonds[i].maturity_date >= today
                       /\ bonds[i].maturity_date <= today + days}

\* router.get('/upcoming-maturities')
GetUpcomingMaturities ==
    /\ \E s \in BondsByMaturity(MaturingWithin(UpcomingDays)) :
         Respond(Request("GET /api/bonds/upcoming-maturities", 0, EmptyBody), 200,
            [upcomingMaturities |-> [i \in DOMAIN s |->
                [id |-> bonds[s[i]].id, issuer |-> bonds[s[i]].issuer,
                 bondType |-> bonds[s[i]].bond_type,
                 faceValue |-> ParseFloat(bonds[s[i]].face_value),
                 maturityDate |-> bonds[s[i]].maturity_date,
                 daysToMaturity |-> DaysToMaturity(bonds[s[i]])]]])
    /\ UNCHANGED <<tables, today>>

---------------------------------------------------------------------------
(* Cashflow: backend/routes/cashflow.js *)

CashflowTypes == {"income", "expense"}
Frequencies == {"daily", "weekly", "monthly", "quarterly", "yearly"}

cashflowSchemaOrder ==
    <<"type", "category", "amount", "description", "date", "isRecurring",
      "recurringFrequency", "tags">>

cashflowSchema(b) ==
    FirstError(cashflowSchemaOrder,
        [k \in {"type", "category", "amount", "description", "date",
                "isRecurring", "recurringFrequency", "tags"} |->
            CASE k = "type" -> First(Required(b, k), OneOf(b, k, CashflowTypes))
              [] k = "category" -> First(Required(b, k), NonEmpty(b, k))
              [] k = "amount" -> First(Required(b, k), Positive(b, k))
              [] k = "description" -> First(Required(b, k), NonEmpty(b, k))
              [] k = "date" -> Required(b, k)
              [] k = "isRecurring" -> ""
              [] k = "recurringFrequency" -> OneOf(b, k, Frequencies)
              [] k = "tags" -> ""], b)

updateCashflowSchemaOrder ==
    <<"category", "amount", "description", "date", "isRecurring",
      "recurringFrequency", "tags">>

updateCashflowSchema(b) ==
    FirstError(updateCashflowSchemaOrder,
        [k \in {"category", "amount", "description", "date", "isRecurring",
                "recurringFrequency", "tags"} |->
            CASE k = "category" -> NonEmpty(b, k)
              [] k = "amount" -> Positive(b, k)
              [] k = "description" -> NonEmpty(b, k)
              [] k = "date" -> ""
              [] k = "isRecurring" -> ""
              [] k = "recurringFrequency" -> OneOf(b, k, Frequencies)
              [] k = "tags" -> ""], b)

UserCashflow == {i \in DOMAIN cashflow : cashflow[i].user_id = SINGLE_USER_ID}

\* is_recurring is BOOLEAN, a TINYINT(1): true is stored as 1
ToTinyint(v) == IF v THEN 1 ELSE 0

\* tags is a JSON column: JSON.stringify(tags) is stored and mysql2 hands the
\* column back parsed, the array of the tags.  JSON.parse of an array parses
\* the array's string, its elements joined by commas: it throws unless that
\* string is itself JSON text.
JsonTexts == {"1", "true", "null"}
JsonParseThrows(tags) == ~(Len(tags) = 1 /\ tags[1] \in JsonTexts)
JsonParse(tags) == tags[1]

CashflowJson(r) ==
    [id |-> r.id, type |-> r.type, category |-> r.category,
     amount |-> ParseFloat(r.amount), description |-> r.description,
     date |-> r.date, isRecurring |-> r.is_recurring,
     recurringFrequency |-> r.recurring_frequency,
     tags |-> JsonParse(r.tags)]

\* the rows the filters of the query string keep
CashflowFiltered(q) ==
    {i \in UserCashflow :
        /\ ("type" \in DOMAIN q /\ q.type \in CashflowTypes) => cashflow[i].type = q.type
        /\ "category" \in DOMAIN q => cashflow[i].category = q.category
        /\ "startDate" \in DOMAIN q => cashflow[i].date >= q.startDate
        /\ "endDate" \in DOMAIN q => cashflow[i].date <= q.endDate}

\* ORDER BY date DESC, created_at DESC: every order of the ids the sort allows
CashflowByDate(ids) ==
    {s \in [1..Cardinality(ids) -> ids] :
        /\ \A i, j \in DOMAIN s : i # j => s[i] # s[j]
        /\ \A i, j \in DOMAIN s :
             i < j => \/ cashflow[s[i]].date > cashflow[s[j]].date
                      \/ /\ cashflow[s[i]].date = cashflow[s[j]].date
                         /\ cashflow[s[i]].created_at >= cashflow[s[j]].created_at}

DefaultLimit == 100
DefaultOffset == 0

\* LIMIT ? OFFSET ?
Page(s, q) ==
    LET limit == Field(q, "limit", DefaultLimit)
        offset == Field(q, "offset", DefaultOffset)
        last == IF offset + limit < Len(s) THEN offset + limit ELSE Len(s)
    IN [i \in 1..(IF last > offset THEN last - offset ELSE 0) |-> s[offset + i]]

\* router.get('/').  Whether the server executes the prepared statement with
\* LIMIT ? OFFSET ? bound to JavaScript numbers depends on its version: either
\* outcome is possible.
GetCashflow(q) ==
    LET r == Request("GET /api/cashflow", 0, q)
    IN
    /\ UNCHANGED <<tables, today>>
    /\ \/ Respond(r, 500, [message |-> "Server error fetching cashflows"])
       \/ \E s \in CashflowByDate(CashflowFiltered(q)) :
            LET page == Page(s, q)
            IN IF \E i \in DOMAIN page : JsonParseThrows(cashflow[page[i]].tags)
               THEN Respond(r, 500, [message |-> "Server error fetching cashflows"])
               ELSE Respond(r, 200,
                        [cashflows |-> [i \in DOMAIN page |->
                            CashflowJson(cashflow[page[i]])
                                @@ [updatedAt |-> cashflow[page[i]].updated_at]]])

InsertedCashflow(b, id) ==
    [id |-> id, user_id |-> SINGLE_USER_ID, type |-> b.type,
     category |-> b.category, amount |-> ToDecimal(b.amount),
     description |-> b.description, date |-> b.date,
     is_recurring |-> ToTinyint(Field(b, "isRecurring", FALSE)),
     recurring_frequency |-> b.recurringFrequency,
     tags |-> Field(b, "tags", <<>>),
     created_at |-> today, updated_at |-> today]

\* router.post('/')
PostCashflow(b) ==
    LET r == Request("POST /api/cashflow", 0, b)
        error == cashflowSchema(b)
        id == nextId.cashflow
    IN
    /\ UNCHANGED <<stocks, bonds, today>>
    /\ IF error # <<>>
       THEN Respond(r, 400, [message |-> error]) /\ UNCHANGED <<cashflow, nextId>>
       ELSE IF BindsUndefined(b, {"recurringFrequency"})
       THEN /\ Respond(r, 500, [message |-> "Server error adding cashflow"])
            /\ UNCHANGED <<cashflow, nextId>>
       ELSE /\ cashflow' = [i \in DOMAIN cashflow \cup {id} |->
                              IF i = id THEN InsertedCashflow(b, id) ELSE cashflow[i]]
            /\ nextId' = [nextId EXCEPT !.cashflow = id + 1]
            /\ IF JsonParseThrows(InsertedCashflow(b, id).tags)
               THEN Respond(r, 500, [message |-> "Server error adding cashflow"])
               ELSE Respond(r, 201, [message |-> "Cashflow entry added successfully",
                                     cashflow |-> CashflowJson(InsertedCashflow(b, id))])

CashflowColumn(k) ==
    CASE k = "isRecurring" -> "is_recurring"
      [] k = "recurringFrequency" -> "recurring_frequency"
      [] OTHER -> k

UpdatedCashflow(row, b) ==
    [c \in DOMAIN row |->
        IF c = "updated_at" THEN today
        ELSE IF \E k \in DOMAIN b : CashflowColumn(k) = c
        THEN LET k == CHOOSE x \in DOMAIN b : CashflowColumn(x) = c
             IN IF c = "amount" THEN ToDecimal(b[k])
                ELSE IF c = "is_recurring" THEN ToTinyint(b[k])
                ELSE b[k]
        ELSE row[c]]

\* router.put('/:id')
PutCashflow(id, b) ==
    LET r == Request("PUT /api/cashflow/:id", id, b)
        error == updateCashflowSchema(b)
    IN
    /\ UNCHANGED <<stocks, bonds, nextId, today>>
    /\ IF error # <<>>
       THEN Respond(r, 400, [message |-> error]) /\ UNCHANGED cashflow
       ELSE IF id \notin UserCashflow
       THEN /\ Respond(r, 404, [message |-> "Cashflow entry not found"])
            /\ UNCHANGED cashflow
       ELSE IF DOMAIN b = {}
       THEN /\ Respond(r, 500, [message |-> "Server error updating cashflow"])
            /\ UNCHANGED cashflow
       ELSE /\ cashflow' = [cashflow EXCEPT ![id] = UpdatedCashflow(cashflow[id], b)]
            /\ Respond(r, 200, [message |-> "Cashflow entry updated successfully"])

\* router.delete('/:id')
DeleteCashflow(id) ==
    LET r == Request("DELETE /api/cashflow/:id", id, EmptyBody)
    IN
    /\ UNCHANGED <<stocks, bonds, nextId, today>>
    /\ IF id \notin UserCashflow
       THEN /\ Respond(r, 404, [message |-> "Cashflow entry not found"])
            /\ UNCHANGED cashflow
       ELSE /\ cashflow' = [i \in DOMAIN cashflow \ {id} |-> cashflow[i]]
            /\ Respond(r, 200, [message |-> "Cashflow entry deleted successfully"])

\* switch (period): the days of INTERVAL n DAY
PeriodDays(period) ==
    CASE period = "weekly" -> WeeklyDays
      [] period = "monthly" -> MonthlyDays
      [] period = "quarterly" -> QuarterlyDays
      [] period = "yearly" -> YearlyDays
      [] OTHER -> MonthlyDays

\* WHERE user_id = ? AND date >= DATE_SUB(CURDATE(), INTERVAL n DAY)
CashflowSince(n) == {i \in UserCashflow : cashflow[i].date >= today - n}

\* SUM(CASE WHEN type = ... THEN amount ELSE 0 END) over the rows in ids
CashflowTotal(type, ids) ==
    SumOver([i \in ids |-> IF cashflow[i].type = type THEN cashflow[i].amount ELSE 0],
            ids)
\* COUNT(CASE WHEN type = ... THEN 1 END)
CashflowCount(type, ids) == Cardinality({i \in ids : cashflow[i].type = type})

\* router.get('/summary'); q is the query, period = 'monthly' when it has none
GetCashflowSummary(q) ==
    LET period == Field(q, "period", "monthly")
        ids == CashflowSince(PeriodDays(period))
        totalIncome == ParseFloat(CashflowTotal("income", ids))
        totalExpenses == ParseFloat(CashflowTotal("expense", ids))
        netCashflow == totalIncome - totalExpenses
    IN
    /\ Respond(Request("GET /api/cashflow/summary", 0, q), 200,
         [period |-> period,
          totalIncome |-> totalIncome,
          totalExpenses |-> totalExpenses,
          netCashflow |-> netCashflow,
          incomeCount |-> CashflowCount("income", ids),
          expenseCount |-> CashflowCount("expense", ids),
          savingsRate |->
              IF totalIncome > 0 THEN Percent(netCashflow, totalIncome) ELSE Zero])
    /\ UNCHANGED <<tables, today>>

---------------------------------------------------------------------------
(* Portfolio: backend/routes/portfolio.js *)

\* A column (scale 4) counts 10^-5 and a product of two columns (scale 8)
\* counts 10^-10: a column added to a product is first brought to scale 8.
Scale8(x) == x * One

\* every order of the elements of S in which f does not increase
SortedDesc(S, f) ==
    {s \in [1..Cardinality(S) -> S] :
        /\ \A i, j \in DOMAIN s : i # j => s[i] # s[j]
        /\ \A i, j \in DOMAIN s : i < j => f[s[i]] >= f[s[j]]}

\* the cashflow of the last 30 days: date >= DATE_SUB(CURDATE(), INTERVAL 30 DAY)
RecentCashflowMutant(type) == {i \in UserCashflow : cashflow[i].type = type}
RecentCashflow(type) ==
    {i \in UserCashflow : /\ cashflow[i].date >= today - RecentDays
                          /\ cashflow[i].type = type}
CashflowAmount(ids) == SumOver([i \in ids |-> cashflow[i].amount], ids)

\* class value / total value * 100, 0 when the total is 0
AllocationPercentMutant(value, total) == Percent(value, total)
AllocationPercent(value, total) ==
    IF total > 0 THEN Percent(value, total) ELSE Zero

\* the body router.get('/overview') responds with
OverviewJson ==
    LET stocksInvested == ParseFloat(StockInvested(UserStocks))
        stocksValue == ParseFloat(StockCurrentValue(UserStocks))
        stocksGainLoss == ParseFloat(StockGainLoss(UserStocks))
        bondsInvested == Scale8(ParseFloat(BondInvested(UserBonds)))
        bondsValue == Scale8(ParseFloat(BondCurrentValue(UserBonds)))
        bondsGainLoss == Scale8(ParseFloat(BondGainLoss(UserBonds)))
        totalInvested == stocksInvested + bondsInvested
        totalCurrentValue == stocksValue + bondsValue
        totalGainLoss == stocksGainLoss + bondsGainLoss
        recentIncome == ParseFloat(CashflowAmount(RecentCashflow("income")))
        recentExpenses == ParseFloat(CashflowAmount(RecentCashflow("expense")))
        recentNetCashflow == recentIncome - recentExpenses
    IN   [overview |->
            [totalInvested |-> totalInvested,
             totalCurrentValue |-> totalCurrentValue,
             totalGainLoss |-> totalGainLoss,
             totalReturnPercentage |-> PercentageReturn(totalGainLoss, totalInvested),
             recentNetCashflow |-> recentNetCashflow,
             totalAssets |-> Cardinality(UserStocks) + Cardinality(UserBonds)],
          stocks |->
            [count |-> Cardinality(UserStocks), invested |-> stocksInvested,
             currentValue |-> stocksValue, gainLoss |-> stocksGainLoss,
             percentage |-> AllocationPercent(stocksValue, totalCurrentValue)],
          bonds |->
            [count |-> Cardinality(UserBonds), invested |-> bondsInvested,
             currentValue |-> bondsValue, gainLoss |-> bondsGainLoss,
             annualIncome |-> ParseFloat(BondAnnualIncome(UserBonds)),
             percentage |-> AllocationPercent(bondsValue, totalCurrentValue)],
          cashflow |->
            [recentIncome |-> recentIncome, recentExpenses |-> recentExpenses,
             netCashflow |-> recentNetCashflow]]

\* router.get('/overview')
GetOverview ==
    /\ Respond(Request("GET /api/portfolio/overview", 0, EmptyBody), 200, OverviewJson)
    /\ UNCHANGED <<tables, today>>

\* GROUP BY sector and GROUP BY bond_type
StocksOfSector(sec) == {i \in UserStocks : stocks[i].sector = sec}
BondsOfType(type) == {i \in UserBonds : bonds[i].bond_type = type}

\* the rows of the first statement: sector, value and count of every sector,
\* ORDER BY value DESC
SectorRows ==
    LET sectors == {stocks[i].sector : i \in UserStocks}
        sectorValue == [c \in sectors |-> StockCurrentValue(StocksOfSector(c))]
    IN {[i \in DOMAIN ss |->
            [sector |-> ss[i], value |-> sectorValue[ss[i]],
             count |-> Cardinality(StocksOfSector(ss[i]))]] :
        ss \in SortedDesc(sectors, sectorValue)}

\* the rows of the second statement: the same of every bond type
BondTypeRows ==
    LET types == {bonds[i].bond_type : i \in UserBonds}
        typeValue == [t \in types |-> BondCurrentValue(BondsOfType(t))]
    IN {[i \in DOMAIN bt |->
            [bond_type |-> bt[i], value |-> typeValue[bt[i]],
             count |-> Cardinality(BondsOfType(bt[i]))]] :
        bt \in SortedDesc(types, typeValue)}

\* the third statement, the totals, and the response made of the three
AllocationJson(stockSectors, bondTypes) ==
    LET stocksTotal == ParseFloat(StockCurrentValue(UserStocks))
        bondsTotal == Scale8(ParseFloat(BondCurrentValue(UserBonds)))
        totalValue == stocksTotal + bondsTotal
    IN [totalValue |-> totalValue,
        assetClasses |->
           <<[name |-> "Stocks", value |-> stocksTotal,
              percentage |-> AllocationPercent(stocksTotal, totalValue)],
             [name |-> "Bonds", value |-> bondsTotal,
              percentage |-> AllocationPercent(bondsTotal, totalValue)]>>,
        stockSectors |-> [i \in DOMAIN stockSectors |->
           [sector |-> stockSectors[i].sector,
            value |-> ParseFloat(stockSectors[i].value),
            percentage |->
               AllocationPercent(ParseFloat(stockSectors[i].value), stocksTotal),
            count |-> stockSectors[i].count]],
        bondTypes |-> [i \in DOMAIN bondTypes |->
           [type |-> bondTypes[i].bond_type,
            value |-> Scale8(ParseFloat(bondTypes[i].value)),
            percentage |->
               AllocationPercent(Scale8(ParseFloat(bondTypes[i].value)), bondsTotal),
            count |-> bondTypes[i].count]]]

\* router.get('/allocation')
GetAllocation ==
    /\ \E ss \in SectorRows, bt \in BondTypeRows :
         Respond(Request("GET /api/portfolio/allocation", 0, EmptyBody), 200,
                 AllocationJson(ss, bt))
    /\ UNCHANGED <<tables, today>>

\* router.get('/allocation'), a statement at a time
AllocationSectors(p) ==
    /\ inflight[p] = Idle
    /\ UNCHANGED <<tables, today>>
    /\ \E ss \in SectorRows :
         Await(p, [pc |-> "SELECT bond_type",
                   r |-> Request("GET /api/portfolio/allocation", 0, EmptyBody),
                   stockSectors |-> ss])

AllocationBondTypes(p) ==
    /\ inflight[p].pc = "SELECT bond_type"
    /\ UNCHANGED <<tables, today>>
    /\ \E bt \in BondTypeRows :
         Await(p, [pc |-> "SELECT totals", r |-> inflight[p].r,
                   stockSectors |-> inflight[p].stockSectors, bondTypes |-> bt])

AllocationTotals(p) ==
    /\ inflight[p].pc = "SELECT totals"
    /\ UNCHANGED <<tables, today>>
    /\ Finish(p, 200, AllocationJson(inflight[p].stockSectors, inflight[p].bondTypes))

\* switch (period): the text bound to the ? of purchase_date >= ? and date >= ?
DateFilter(period) ==
    CASE period = "1m" -> "DATE_SUB(CURDATE(), INTERVAL 1 MONTH)"
      [] period = "3m" -> "DATE_SUB(CURDATE(), INTERVAL 3 MONTH)"
      [] period = "6m" -> "DATE_SUB(CURDATE(), INTERVAL 6 MONTH)"
      [] period = "1y" -> "DATE_SUB(CURDATE(), INTERVAL 1 YEAR)"
      [] period = "all" -> "1900-01-01"
      [] OTHER -> "DATE_SUB(CURDATE(), INTERVAL 1 YEAR)"

\* What column >= ? does with the bound text.  '1900-01-01' is a date, before
\* every date of the tables.  The other texts are bound as strings, not run as
\* SQL, and are no dates: depending on the server and its mode the statement
\* throws, or compares every date as after the text, or as before it.
DateComparisons(text) ==
    IF text = "1900-01-01" THEN {"every row"}
    ELSE {"throws", "every row", "no row"}

\* GROUP BY DATE(...) ORDER BY date ASC over the rows in ids of a table, whose
\* date is column; figures gives the sums of the rows of one date
PerformanceGroups(table, ids, column, figures(_, _)) ==
    LET dates == {table[i][column] : i \in ids}
        asc == CHOOSE s \in SortedDesc(dates, [d \in dates |-> -d]) : TRUE
    IN [k \in DOMAIN asc |->
          figures(asc[k], {i \in ids : table[i][column] = asc[k]})]

StockPerformance(date, ids) ==
    [date |-> date, invested |-> ParseFloat(StockInvested(ids)),
     currentValue |-> ParseFloat(StockCurrentValue(ids)),
     return |-> ParseFloat(StockCurrentValue(ids)) - ParseFloat(StockInvested(ids))]
BondPerformance(date, ids) ==
    [date |-> date, invested |-> ParseFloat(BondInvested(ids)),
     currentValue |-> ParseFloat(BondCurrentValue(ids)),
     return |-> ParseFloat(BondCurrentValue(ids)) - ParseFloat(BondInvested(ids))]
CashflowPerformance(date, ids) ==
    [date |-> date, income |-> ParseFloat(CashflowTotal("income", ids)),
     expenses |-> ParseFloat(CashflowTotal("expense", ids)),
     net |-> ParseFloat(CashflowTotal("income", ids))
               - ParseFloat(CashflowTotal("expense", ids))]

\* router.get('/performance'); q is the query, period = '1y' when it has none
GetPerformance(q) ==
    LET period == Field(q, "period", "1y")
        r == Request("GET /api/portfolio/performance", 0, q)
    IN
    /\ UNCHANGED <<tables, today>>
    /\ \E compared \in DateComparisons(DateFilter(period)) :
         IF compared = "throws"
         THEN Respond(r, 500, [message |-> "Server error fetching portfolio performance"])
         ELSE LET Since(ids) == IF compared = "every row" THEN ids ELSE {}
              IN Respond(r, 200,
                   [period |-> period,
                    stocks |-> PerformanceGroups(stocks, Since(UserStocks),
                                                 "purchase_date", StockPerformance),
                    bonds |-> PerformanceGroups(bonds, Since(UserBonds),
                                                "purchase_date", BondPerformance),
                    cashflow |-> PerformanceGroups(cashflow, Since(UserCashflow),
                                                   "date", CashflowPerformance)])

\* the bond_maturity alert of a bond
MaturitySeverityMutant(days) == IF days < HighAlertDays THEN "high" ELSE "medium"
MaturitySeverity(days) == IF days <= HighAlertDays THEN "high" ELSE "medium"

BondAlert(r) ==
    [type |-> "bond_maturity",
     severity |-> MaturitySeverity(DaysToMaturity(r)),
     message |-> <<"Bond", r.issuer, "matures in", DaysToMaturity(r), "days">>,
     data |-> [issuer |-> r.issuer, maturityDate |-> r.maturity_date,
               faceValue |-> ParseFloat(r.face_value),
               daysToMaturity |-> DaysToMaturity(r)]]

\* (current_price - purchase_price) / purchase_price * 100, NULL for a
\* purchase price of 0.  MySQL rounds the quotient to 8 decimals, which is
\* exact enough to leave every comparison with 20 and 50 as it is for prices
\* below 4000.
PercentageChange(r) == Percent(r.current_price - r.purchase_price, r.purchase_price)

\* WHERE current_price IS NOT NULL AND ABS(percentage_change) >= 20
SignificantMovementsMutant ==
    {i \in UserStocks : /\ stocks[i].current_price # NULL
                        /\ PercentAtLeast(PercentageChange(stocks[i]), HighAlertPercent)}
SignificantMovements ==
    {i \in UserStocks : /\ stocks[i].current_price # NULL
                        /\ PercentAtLeast(PercentageChange(stocks[i]), AlertPercent)}

\* ORDER BY ABS(percentage_change) DESC: every order the sort allows
MovementsByChange ==
    {s \in [1..Cardinality(SignificantMovements) -> SignificantMovements] :
        /\ \A i, j \in DOMAIN s : i # j => s[i] # s[j]
        /\ \A i, j \in DOMAIN s :
             i < j => AbsPercentGeq(PercentageChange(stocks[s[i]]),
                                    PercentageChange(stocks[s[j]]))}

StockAlert(r) ==
    LET isGain == PercentPositive(PercentageChange(r))
    IN [type |-> IF isGain THEN "significant_gain" ELSE "significant_loss",
        severity |-> IF PercentAtLeast(PercentageChange(r), HighAlertPercent)
                     THEN "high" ELSE "medium",
        message |-> <<r.symbol, "has", IF isGain THEN "gained" ELSE "lost",
                      PercentageChange(r)>>,
        data |-> [symbol |-> r.symbol, companyName |-> r.company_name,
                  percentageChange |-> PercentageChange(r),
                  currentPrice |-> ParseFloat(r.current_price),
                  purchasePrice |-> ParseFloat(r.purchase_price)]]

\* the bodies router.get('/alerts') can respond with: the bond alerts, then
\* the stock alerts, rows of equal rank in either order
AlertsJson ==
    {[alerts |-> [i \in DOMAIN bs |-> BondAlert(bonds[bs[i]])]
                 \o [i \in DOMAIN ms |-> StockAlert(stocks[ms[i]])]] :
        bs \in BondsByMaturity(MaturingWithin(AlertDays)), ms \in MovementsByChange}

\* router.get('/alerts')
GetAlerts ==
    /\ \E body \in AlertsJson :
         Respond(Request("GET /api/portfolio/alerts", 0, EmptyBody), 200, body)
    /\ UNCHANGED <<tables, today>>

---------------------------------------------------------------------------
(* Time *)

\* the maturity dates of the bonds followed through the days: a day ahead,
\* and a day more than each of the three windows ahead, so that a bond enters
\* a window, and another passes its maturity, as the first days pass
MaturityDates == {1, HighAlertDays + 1, AlertDays + 1, UpcomingDays + 1}

\* midnight: CURDATE() moves on to the next day
NextDay ==
    /\ today < MaxDay
    /\ today' = today + 1
    /\ UNCHANGED <<tables, req, resp, deleted, inflight, server, dashboard>>

---------------------------------------------------------------------------
(* Requests.  The bodies, ids and queries the clients send: of each schema   *)
(* some bodies that pass and some that fail, bodies with and without the     *)
(* optional keys, numbers finer than 4 decimals (4 is 0.00004), prices that  *)
(* move a stock by 18, 20 and 50 percent of 500 (0.005).                     *)

StockBody(symbol, price) ==
    [symbol |-> symbol, companyName |-> "Co", quantity |-> 10,
     purchasePrice |-> price, purchaseDate |-> 0, sector |-> "Tech", notes |-> "n"]

\* without the optional sector and notes
StockBodyBare(symbol) ==
    [symbol |-> symbol, companyName |-> "Co", quantity |-> 10,
     purchasePrice |-> 50, purchaseDate |-> 0]

StockBodiesValid ==
    {StockBody(s, p) : s \in {"AAA", "BBB"}, p \in {4, 50}} \cup {StockBodyBare("AAA")}
StockBodiesInvalid ==
    {[StockBody("AAA", 50) EXCEPT !.quantity = 0, !.purchasePrice = 0],
     [symbol |-> "AAA", quantity |-> 10]}

StockPatchesValid ==
    {[quantity |-> 20], [purchasePrice |-> 4, sector |-> "Energy"]}
\* current prices 18, 20 and 50 percent above and 50 percent below 500
StockPricePatches ==
    {[currentPrice |-> p] : p \in {590, 600, 750, 250}}
StockPatchesInvalid ==
    {[quantity |-> 0, currentPrice |-> 0], [symbol |-> "BBB"]}

BondBody(maturity, coupon) ==
    [issuer |-> "Gov", bondType |-> "treasury", faceValue |-> 100,
     couponRate |-> coupon, maturityDate |-> maturity, purchasePrice |-> 90,
     purchaseDate |-> 0, rating |-> "AA", notes |-> "n"]

\* 5 percent and 10 percent, the latter more than coupon_rate holds
BondBodiesValid(maturities) ==
    {BondBody(m, 500000) : m \in maturities}
    \cup {BondBody(today + 1, 1000000),
          [k \in DOMAIN BondBody(0, 0) \ {"rating", "notes"} |->
              BondBody(today + 1, 500000)[k]]}
BondBodiesInvalid ==
    {BondBody(today, 500000),
     [BondBody(today + 1, 500000) EXCEPT !.bondType = "junk", !.faceValue = 0],
     [BondBody(today + 1, 500000) EXCEPT !.bondType = "junk"],
     BondBody(today + 1, CouponSchemaMax + 10)}

BondPatchesValid ==
    {[currentPrice |-> 100, rating |-> "B"], [couponRate |-> 1000000]}
BondPatchesInvalid ==
    {[couponRate |-> CouponSchemaMax + 10], [maturityDate |-> today + 1],
     [bondType |-> "corporate"]}

CashflowBody(type, tags) ==
    [type |-> type, category |-> "Food", amount |-> 30, description |-> "d",
     date |-> 0, isRecurring |-> TRUE, recurringFrequency |-> "monthly",
     tags |-> tags]

CashflowBodiesValid ==
    {CashflowBody("income", <<"x">>), CashflowBody("expense", <<"1">>)}
    \cup {[type |-> "income", category |-> "Pay", amount |-> 30,
           description |-> "d", date |-> 0]}
CashflowBodiesInvalid ==
    {[CashflowBody("saving", <<>>) EXCEPT !.amount = 0],
     CashflowBody("saving", <<"1">>),
     [CashflowBody("income", <<>>) EXCEPT !.recurringFrequency = "often"]}

CashflowPatchesValid ==
    {[amount |-> 44, isRecurring |-> FALSE]}
CashflowPatchesInvalid ==
    {[amount |-> 0], [type |-> "expense"]}

CashflowQueries == {EmptyBody, [type |-> "income"], [limit |-> 1, offset |-> 1]}

\* the ids of a table with at most n rows ever inserted, and one never used
Ids(n) == 1..(n + 1)

---------------------------------------------------------------------------
(* The server process and the page that reads it *)

\* table users: INSERT IGNORE INTO users (id, username, ...) VALUES (1,
\* 'portfolio_user', ...) of initDatabase
DefaultUser == [id |-> SINGLE_USER_ID, username |-> "portfolio_user"]

\* the process once startServer has run through: initDatabase has connected
\* and ensured the user, app.listen has been called
Started ==
    [init |-> "ensured", listening |-> TRUE, db |-> TRUE, users |-> {DefaultUser}]

\* null, the data of the component before a load has succeeded
JsNull == [null |-> TRUE]

\* useState(null), useState(true), useState('') of Dashboard, before its
\* effect has run
Unmounted ==
    [pc |-> "mounted", data |-> JsNull, loading |-> TRUE, error |-> "",
     overviewResponse |-> JsNull, alertsResponse |-> JsNull]

---------------------------------------------------------------------------
(* Specifications *)

Init ==
    /\ stocks = <<>>
    /\ bonds = <<>>
    /\ cashflow = <<>>
    /\ nextId = [stocks |-> 1, bonds |-> 1, cashflow |-> 1]
    /\ today = 0
    /\ req = Request("none", 0, EmptyBody)
    /\ resp = [status |-> 0, body |-> <<>>]
    /\ deleted = [stocks |-> {}, bonds |-> {}, cashflow |-> {}]
    /\ inflight = [p \in Slots |-> Idle]
    /\ server = Started
    /\ dashboard = Unmounted

\* The stocks routes alone.
NextStocks ==
    \/ \E b \in StockBodiesValid \cup StockBodiesInvalid :
         nextId.stocks <= MaxId /\ PostStock(b)
    \/ \E id \in Ids(MaxId), b \in StockPatchesValid \cup StockPatchesInvalid \cup {EmptyBody} :
         PutStock(id, b)
    \/ \E id \in Ids(MaxId) : DeleteStock(id)
    \/ GetStocks
    \/ GetStockSummary

SpecStocks == Init /\ [][NextStocks]_vars

\* The bonds routes and the alerts, as the days pass.
NextBonds ==
    \/ \E b \in BondBodiesValid(MaturityDates) \cup BondBodiesInvalid :
         nextId.bonds <= MaxId /\ PostBond(b)
    \/ \E id \in Ids(MaxId) : PutBond(id, [currentPrice |-> 100])
    \/ \E id \in Ids(MaxId) : DeleteBond(id)
    \/ GetBonds
    \/ GetUpcomingMaturities
    \/ GetAlerts
    \/ NextDay

SpecBonds == Init /\ [][NextBonds]_vars

\* All the routes that write, and the lists, over the three tables.
Next ==
    \/ \E b \in {StockBody("AAA", 50), StockBody("BBB", 50)} \cup StockBodiesInvalid :
         nextId.stocks <= MaxId /\ PostStock(b)
    \/ \E id \in Ids(MaxId),
          b \in {[purchasePrice |-> 4, sector |-> "Energy"], EmptyBody}
                \cup StockPatchesInvalid :
         PutStock(id, b)
    \/ \E id \in Ids(MaxId) : DeleteStock(id)
    \/ GetStocks
    \/ \E b \in {BondBody(today + 1, 500000)} \cup BondBodiesInvalid :
         nextId.bonds <= MaxOther /\ PostBond(b)
    \/ \E id \in Ids(MaxOther), b \in BondPatchesValid \cup BondPatchesInvalid \cup {EmptyBody} :
         PutBond(id, b)
    \/ \E id \in Ids(MaxOther) : DeleteBond(id)
    \/ GetBonds
    \/ \E b \in CashflowBodiesValid \cup CashflowBodiesInvalid :
         nextId.cashflow <= MaxOther /\ PostCashflow(b)
    \/ \E id \in Ids(MaxOther),
          b \in CashflowPatchesValid \cup CashflowPatchesInvalid \cup {EmptyBody} :
         PutCashflow(id, b)
    \/ \E id \in Ids(MaxOther) : DeleteCashflow(id)
    \/ \E q \in CashflowQueries : GetCashflow(q)

Spec == Init /\ [][Next]_vars

\* The stocks and bonds a portfolio holds, and the routes that report on them.
NextPortfolio ==
    \/ \E b \in {StockBody("AAA", 500), StockBody("BBB", 500), StockBody("BBB", 4)} :
         nextId.stocks <= MaxId /\ PostStock(b)
    \/ \E id \in Ids(MaxId), b \in StockPricePatches : PutStock(id, b)
    \/ \E b \in BondBodiesValid({today + 1, today + AlertDays + 1}) :
         nextId.bonds <= MaxOther /\ PostBond(b)
    \/ \E id \in Ids(MaxOther), b \in BondPatchesValid : PutBond(id, b)
    \/ GetStockSummary
    \/ GetBondSummary
    \/ GetOverview
    \/ GetAllocation
    \/ GetAlerts

SpecPortfolio == Init /\ [][NextPortfolio]_vars

\* The errors next(err) hands to the error handling middleware, such as those
\* of express.json() for a body that is not JSON or is too large, and the
\* values of NODE_ENV, "undefined" when the environment does not set it.
Errors ==
    {[message |-> "Unexpected token } in JSON at position 1"],
     [message |-> "request entity too large"]}
NodeEnvs == {"development", "production", "undefined"}

\* process.env.NODE_ENV === 'development' ? err.message : {}
ErrorDetailMutant(err, nodeEnv) == [string |-> err.message]
ErrorDetail(err, nodeEnv) ==
    IF nodeEnv = "development" THEN [string |-> err.message]
    ELSE [object |-> EmptyBody]

\* app.use((err, req, res, next) => ...)
ErrorMiddleware(err, nodeEnv) ==
    /\ Respond(Request("error middleware", 0, [err |-> err, NODE_ENV |-> nodeEnv]),
               500,
               [message |-> "Something went wrong!",
                error |-> ErrorDetail(err, nodeEnv)])
    /\ UNCHANGED <<tables, today>>

\* All the routes that write, the lists, and the requests that end in the
\* error handling middleware.
NextErrors ==
    \/ Next
    \/ \E err \in Errors, nodeEnv \in NodeEnvs : ErrorMiddleware(err, nodeEnv)

SpecErrors == Init /\ [][NextErrors]_vars

\* The stocks routes and the allocation, MaxRequests requests at a time, the
\* statements of one between the statements of another; a bond is added by a
\* request whose statements no other request comes between.
NextConcurrent ==
    \/ nextId.bonds <= MaxOther /\ PostBond(BondBody(today + 1, 500000))
    \/ \E p \in Slots :
        \/ /\ nextId.stocks
                + Cardinality({q \in Slots : inflight[q].pc = "INSERT stocks"}) <= MaxId
           /\ PostStockSelect(p, StockBody("AAA", 50))
        \/ PostStockInsert(p)
        \/ PostStockReselect(p)
        \/ \E id \in 1..MaxId : PutStockSelect(p, id, [currentPrice |-> 600])
        \/ PutStockUpdate(p)
        \/ \E id \in 1..MaxId : DeleteStockSelect(p, id)
        \/ DeleteStockDelete(p)
        \/ AllocationSectors(p)
        \/ AllocationBondTypes(p)
        \/ AllocationTotals(p)

SpecConcurrent == Init /\ [][NextConcurrent]_vars

\* The cashflow entries and their summaries, as the days pass: an entry is
\* dated tomorrow, today, or the last day of one of the windows.
CashflowDates == {1, 0, -WeeklyDays, -MonthlyDays, -QuarterlyDays, -YearlyDays}
CashflowDated(type, amount, date) ==
    [CashflowBody(type, <<"1">>) EXCEPT !.amount = amount, !.date = date]
SummaryQueries ==
    {EmptyBody} \cup {[period |-> p] :
                         p \in {"weekly", "monthly", "quarterly", "yearly", "daily"}}

NextCashflow ==
    \/ \E d \in CashflowDates :
         \E b \in {CashflowDated("income", 50, d), CashflowDated("expense", 30, d)} :
            nextId.cashflow <= MaxId /\ PostCashflow(b)
    \/ \E id \in Ids(MaxId) : DeleteCashflow(id)
    \/ \E q \in SummaryQueries : GetCashflowSummary(q)
    \/ NextDay

SpecCashflow == Init /\ [][NextCashflow]_vars

\* The holdings and the cashflow of a portfolio, their lists, the overview and
\* the alerts; a cashflow entry is dated today or a day before the window of
\* the overview.
NextHoldings ==
    \/ \E b \in {StockBody("AAA", 500), StockBody("BBB", 4)} :
         nextId.stocks <= MaxId /\ PostStock(b)
    \/ \E id \in Ids(MaxId),
          b \in {[currentPrice |-> 600], [quantity |-> 20], [purchasePrice |-> 250]} :
         PutStock(id, b)
    \/ GetStocks
    \/ \E b \in {BondBody(today + 1, 500000)} :
         nextId.bonds <= MaxOther /\ PostBond(b)
    \/ \E id \in Ids(MaxOther), b \in BondPatchesValid : PutBond(id, b)
    \/ GetBonds
    \/ \E b \in {CashflowDated("income", 50, 0), CashflowDated("expense", 30, 0),
                  CashflowDated("income", 50, -(RecentDays + 1))} :
         nextId.cashflow <= MaxId /\ PostCashflow(b)
    \/ GetOverview
    \/ GetAlerts

SpecHoldings == Init /\ [][NextHoldings]_vars

\* The performance of holdings bought, and cashflow dated, today and more
\* than a year ago.
PerformanceQueries ==
    {EmptyBody} \cup {[period |-> p] : p \in {"1m", "3m", "6m", "1y", "all", "2y"}}

NextPerformance ==
    \/ \E d \in {0, -(YearlyDays + 1)} :
         /\ nextId.stocks <= MaxId
         /\ \E sym \in {"AAA", "BBB"} :
              PostStock([StockBody(sym, 500) EXCEPT !.purchaseDate = d])
    \/ \E id \in Ids(MaxId) : PutStock(id, [currentPrice |-> 600])
    \/ \E d \in {0, -(YearlyDays + 1)} :
         /\ nextId.bonds <= MaxOther
         /\ PostBond([BondBody(today + 1, 500000) EXCEPT !.purchaseDate = d])
    \/ \E d \in {0, -(YearlyDays + 1)} :
         /\ nextId.cashflow <= MaxId
         /\ \E b \in {CashflowDated("income", 50, d), CashflowDated("expense", 30, d)} :
              PostCashflow(b)
    \/ \E q \in PerformanceQueries : GetPerformance(q)

SpecPerformance == Init /\ [][NextPerformance]_vars

\* A database whose tables hold, besides what user 1 adds, one row each of
\* another user of the users table: user_id is a column of every table.
OtherUser == SINGLE_USER_ID + 1
InitUsers ==
    /\ today = 0
    /\ stocks = [i \in {1} |->
                   [InsertedStock(StockBody("AAA", 50), 1) EXCEPT !.user_id = OtherUser]]
    /\ bonds = [i \in {1} |->
                  [InsertedBond(BondBody(1, 500000), 1) EXCEPT !.user_id = OtherUser]]
    /\ cashflow = [i \in {1} |->
                     [InsertedCashflow(CashflowBody("income", <<"1">>), 1)
                        EXCEPT !.user_id = OtherUser]]
    /\ nextId = [stocks |-> 2, bonds |-> 2, cashflow |-> 2]
    /\ req = Request("none", 0, EmptyBody)
    /\ resp = [status |-> 0, body |-> <<>>]
    /\ deleted = [stocks |-> {}, bonds |-> {}, cashflow |-> {}]
    /\ inflight = [p \in Slots |-> Idle]
    /\ server = Started
    /\ dashboard = Unmounted

NextUsers ==
    \/ \E b \in {StockBody("AAA", 50)} : nextId.stocks <= MaxId /\ PostStock(b)
    \/ \E id \in 1..MaxId : PutStock(id, [quantity |-> 20])
    \/ \E id \in 1..MaxId : DeleteStock(id)
    \/ GetStocks
    \/ GetStockSummary
    \/ \E b \in {BondBody(today + 1, 500000)} : nextId.bonds <= MaxId /\ PostBond(b)
    \/ \E id \in 1..MaxId : PutBond(id, [currentPrice |-> 100])
    \/ \E id \in 1..MaxId : DeleteBond(id)
    \/ GetBonds
    \/ GetBondSummary
    \/ \E b \in {CashflowBody("expense", <<"1">>)} :
         nextId.cashflow <= MaxId /\ PostCashflow(b)
    \/ \E id \in 1..MaxId : PutCashflow(id, [amount |-> 44])
    \/ \E id \in 1..MaxId : DeleteCashflow(id)
    \/ GetCashflow(EmptyBody)

SpecUsers == InitUsers /\ [][NextUsers]_vars

---------------------------------------------------------------------------
(* Properties of the write routes *)

PutRoutes ==
    [stocks |-> "PUT /api/stocks/:id", bonds |-> "PUT /api/bonds/:id",
     cashflow |-> "PUT /api/cashflow/:id"]
PostRoutes ==
    [stocks |-> "POST /api/stocks", bonds |-> "POST /api/bonds",
     cashflow |-> "POST /api/cashflow"]
ListRoutes ==
    [stocks |-> "GET /api/stocks", bonds |-> "GET /api/bonds",
     cashflow |-> "GET /api/cashflow"]
\* the list of a list response
Listed(t, body) ==
    CASE t = "stocks" -> body.stocks
      [] t = "bonds" -> body.bonds
      [] t = "cashflow" -> body.cashflows

\* C1: for every body that passes stockSchema, with or without the optional
\* sector and notes, whose symbol is not yet held, POST /api/stocks answers 201
\* with a stock carrying the submitted symbol, companyName, quantity,
\* purchasePrice, purchaseDate, sector and notes, and the table then holds
\* exactly one row of that id, with the same values, for GET /api/stocks to list.
C1_CreateThenFetch ==
    [][\A b \in StockBodiesValid :
        (/\ stockSchema(b) = <<>>
         /\ \A i \in DOMAIN stocks : stocks[i].symbol # b.symbol
         /\ PostStock(b))
        => /\ resp'.status = 201
           /\ \A k \in DOMAIN b : resp'.body.stock[k] = b[k]
           /\ LET id == resp'.body.stock.id
              IN /\ id \in DOMAIN stocks'
                 /\ \A k \in DOMAIN b : StockListJson(stocks'[id])[k] = b[k]]_vars

\* whether column c of a row holds the value v a body submitted for it
Holds(c, held, v) ==
    IF c = "is_recurring" THEN held = (IF v THEN 1 ELSE 0) ELSE held = v

\* a PUT that answered 200 left the addressed row of the table different at
\* most in the columns the body names, each holding the submitted value
OnlyNamedColumns(before, after, id, b, column(_)) ==
    /\ DOMAIN after = DOMAIN before
    /\ \A i \in DOMAIN before \ {id} : after[i] = before[i]
    /\ \A c \in DOMAIN before[id] \ {"updated_at"} :
         IF \E k \in DOMAIN b : column(k) = c
         THEN \A k \in DOMAIN b : column(k) = c => Holds(c, after[id][c], b[k])
         ELSE after[id][c] = before[id][c]

\* C2: when PUT /api/{stocks,bonds,cashflow}/:id answers 200, the addressed
\* row differs from its previous value at most in the columns named by the
\* keys of the body (and updated_at), each such column now holds the submitted
\* value, and every other row of every table is unchanged.
C2_UpdateOnlyNamed ==
    [][(resp'.status = 200 /\ today' = today) =>
        /\ (req'.op = PutRoutes.stocks /\ PutStock(req'.id, req'.body))
             => /\ OnlyNamedColumns(stocks, stocks', req'.id, req'.body, StockColumn)
                /\ UNCHANGED <<bonds, cashflow>>
        /\ (req'.op = PutRoutes.bonds /\ PutBond(req'.id, req'.body))
             => /\ OnlyNamedColumns(bonds, bonds', req'.id, req'.body, BondColumn)
                /\ UNCHANGED <<stocks, cashflow>>
        /\ (req'.op = PutRoutes.cashflow /\ PutCashflow(req'.id, req'.body))
             => /\ OnlyNamedColumns(cashflow, cashflow', req'.id, req'.body,
                                    CashflowColumn)
                /\ UNCHANGED <<stocks, bonds>>]_vars

\* whether the body of a PUT fails the update schema of its table
UpdateSchemaFails(t, b) ==
    CASE t = "stocks" -> updateStockSchema(b) # <<>>
      [] t = "bonds" -> updateBondSchema(b) # <<>>
      [] t = "cashflow" -> updateCashflowSchema(b) # <<>>

\* What follows a DELETE that answered 200 for an id of table t, of which
\* before and after are the values around a step: a later DELETE answers 404,
\* a later PUT 404 (when lenient, also 400 for a body that fails the schema),
\* no list holds the id and no row of that id is inserted.
AfterDelete(t, before, after, lenient) ==
    /\ (req'.op = DeleteRoutes[t] /\ req'.id \in deleted[t]) => resp'.status = 404
    /\ (req'.op = PutRoutes[t] /\ req'.id \in deleted[t])
         => \/ resp'.status = 404
            \/ lenient /\ resp'.status = 400 /\ UpdateSchemaFails(t, req'.body)
    /\ (req'.op = ListRoutes[t] /\ resp'.status = 200)
         => \A i \in DOMAIN Listed(t, resp'.body) :
               Listed(t, resp'.body)[i].id \notin deleted[t]
    /\ \A i \in DOMAIN after \ DOMAIN before : i \notin deleted[t]
    /\ \A i \in DOMAIN after : i \notin deleted'[t]

\* C3, as the specification words it: once DELETE has answered 200 for an id,
\* every later PUT or DELETE on that id answers 404, no list response holds
\* the id again and no later POST reuses it.
C3_DeleteThen404 ==
    [][today' = today =>
        /\ AfterDelete("stocks", stocks, stocks', FALSE)
        /\ AfterDelete("bonds", bonds, bonds', FALSE)
        /\ AfterDelete("cashflow", cashflow, cashflow', FALSE)]_vars

\* C3, as the code has it: once DELETE has answered 200 for an id, every later
\* DELETE on that id answers 404 and every later PUT answers 404, or 400 when
\* its body fails the update schema, which is validated before the row is
\* looked up; no list response holds the id again and no later POST reuses it.
C3_DeleteThenGone ==
    [][today' = today =>
        /\ AfterDelete("stocks", stocks, stocks', TRUE)
        /\ AfterDelete("bonds", bonds, bonds', TRUE)
        /\ AfterDelete("cashflow", cashflow, cashflow', TRUE)]_vars

\* a stock was deleted, a stock was added after it, and a PUT with a body that
\* passes the schema has been answered 404 for the deleted id
C3_Witness ==
    /\ req.op = PutRoutes.stocks
    /\ req.id \in deleted.stocks
    /\ ~UpdateSchemaFails("stocks", req.body)
    /\ resp.status = 404
    /\ \E i \in DOMAIN stocks : i > req.id

\* whether the body of a POST fails the schema of its table
CreateSchemaFails(t, b) ==
    CASE t = "stocks" -> stockSchema(b) # <<>>
      [] t = "bonds" -> bondSchema(b) # <<>>
      [] t = "cashflow" -> cashflowSchema(b) # <<>>

\* the request of the step, made with this body, is answered 400 with the
\* message of this key and this rule
Answers400(op, b, key, rule) ==
    (req'.op = op /\ req'.body = b)
        => /\ resp'.status = 400
           /\ resp'.body = [message |-> <<key, rule>>]

\* bodies that break more than one rule, with the first message of each
FirstMessages ==
    /\ Answers400(PostRoutes.stocks,
                  [symbol |-> "AAA", companyName |-> "Co", quantity |-> 0,
                   purchasePrice |-> 0, purchaseDate |-> 0, sector |-> "Tech",
                   notes |-> "n"],
                  "quantity", "number.positive")
    /\ Answers400(PostRoutes.stocks, [symbol |-> "AAA", quantity |-> 10],
                  "companyName", "any.required")
    /\ Answers400(PutRoutes.stocks, [quantity |-> 0, currentPrice |-> 0],
                  "quantity", "number.positive")
    /\ Answers400(PutRoutes.stocks, [symbol |-> "BBB"], "body", "object.unknown")
    /\ Answers400(PostRoutes.bonds,
                  [issuer |-> "Gov", bondType |-> "junk", faceValue |-> 0,
                   couponRate |-> 500000, maturityDate |-> today + 1,
                   purchasePrice |-> 90, purchaseDate |-> 0, rating |-> "AA",
                   notes |-> "n"],
                  "bondType", "any.only")
    /\ Answers400(PostRoutes.bonds, BondBody(today, 500000),
                  "maturityDate", "date.greater")
    /\ Answers400(PutRoutes.bonds, [couponRate |-> CouponSchemaMax + 10],
                  "couponRate", "number.max")
    /\ Answers400(PutRoutes.bonds, [maturityDate |-> today + 1],
                  "body", "object.unknown")
    /\ Answers400(PostRoutes.cashflow,
                  [CashflowBody("saving", <<>>) EXCEPT !.amount = 0],
                  "type", "any.only")
    /\ Answers400(PutRoutes.cashflow, [amount |-> 0], "amount", "number.positive")
    /\ Answers400(PutRoutes.cashflow, [type |-> "expense"], "body", "object.unknown")

\* The answers to the requests that fail, of table t with the values before
\* and after around a step: 400 to a body that fails its schema, 404 to a
\* DELETE and to a PUT on an id without a row (when lenient, only to a PUT
\* whose body passes the schema), and the table as it was.
Failures(t, before, after, lenient) ==
    /\ (req'.op = PostRoutes[t] /\ CreateSchemaFails(t, req'.body))
         => resp'.status = 400
    /\ (req'.op = PutRoutes[t] /\ UpdateSchemaFails(t, req'.body)
          /\ (~lenient => req'.id \in DOMAIN before))
         => resp'.status = 400
    /\ (req'.op = DeleteRoutes[t] /\ req'.id \notin DOMAIN before)
         => resp'.status = 404
    /\ (req'.op = PutRoutes[t] /\ req'.id \notin DOMAIN before
          /\ (lenient => ~UpdateSchemaFails(t, req'.body)))
         => resp'.status = 404
    /\ (req'.op \in {PostRoutes[t], PutRoutes[t], DeleteRoutes[t]}
          /\ resp'.status \in {400, 404})
         => UNCHANGED tables

\* C10, as the specification words it: a POST or PUT whose body fails its
\* schema is answered 400 with the first validation message, a PUT or DELETE
\* on an id that has no row is answered 404, and in both cases every table is
\* left as it was.
C10_ErrorsAsWorded ==
    [][today' = today =>
        /\ FirstMessages
        /\ Failures("stocks", stocks, stocks', FALSE)
        /\ Failures("bonds", bonds, bonds', FALSE)
        /\ Failures("cashflow", cashflow, cashflow', FALSE)]_vars

\* C10, as the code has it: a POST or PUT whose body fails its schema is
\* answered 400 with the first validation message, whether or not the id has
\* a row; a DELETE, or a PUT whose body passes its schema, on an id that has
\* no row is answered 404; in both cases every table is left as it was.
C10_ErrorsLeaveData ==
    [][today' = today =>
        /\ FirstMessages
        /\ Failures("stocks", stocks, stocks', TRUE)
        /\ Failures("bonds", bonds, bonds', TRUE)
        /\ Failures("cashflow", cashflow, cashflow', TRUE)]_vars

\* a PUT that breaks two rules, on an id without a row while the table has
\* rows, has been answered 400
C10_Witness ==
    /\ req.op = PutRoutes.stocks
    /\ req.body = [quantity |-> 0, currentPrice |-> 0]
    /\ req.id \notin DOMAIN stocks
    /\ stocks # <<>>
    /\ resp.status = 400

---------------------------------------------------------------------------
(* Properties of the reports.  A report is compared with the tables of the   *)
(* state it is in: a request that changes a table replaces the report, and   *)
(* a report of an earlier day is no longer the one of today.                 *)

\* the report of a route is the response of this state
Reported(op) == req.op = op /\ req.day = today /\ resp.status = 200

\* what the rows of the two tables are worth, summed row by row
InvestedInStocks ==
    SumOver([i \in DOMAIN stocks |-> stocks[i].quantity * stocks[i].purchase_price],
            DOMAIN stocks)
ValueOfStocks ==
    SumOver([i \in DOMAIN stocks |->
                stocks[i].quantity * (IF stocks[i].current_price = NULL
                                      THEN stocks[i].purchase_price
                                      ELSE stocks[i].current_price)],
            DOMAIN stocks)
InvestedInBonds ==
    SumOver([i \in DOMAIN bonds |-> bonds[i].purchase_price], DOMAIN bonds)
ValueOfBonds ==
    SumOver([i \in DOMAIN bonds |-> IF bonds[i].current_price = NULL
                                    THEN bonds[i].purchase_price
                                    ELSE bonds[i].current_price],
            DOMAIN bonds)

\* C4: GET /api/stocks/summary and GET /api/bonds/summary return
\* totalGainLoss = currentValue - totalInvested, where a stock contributes
\* quantity * purchase_price to the invested and quantity * COALESCE(
\* current_price, purchase_price) to the current value, and a bond its
\* purchase_price and COALESCE(current_price, purchase_price); with no rows
\* all three are 0.
C4_GainLoss ==
    /\ Reported("GET /api/stocks/summary") =>
         /\ resp.body.totalInvested = InvestedInStocks
         /\ resp.body.currentValue = ValueOfStocks
         /\ resp.body.totalGainLoss = resp.body.currentValue - resp.body.totalInvested
         /\ DOMAIN stocks = {} =>
              /\ resp.body.totalInvested = 0
              /\ resp.body.currentValue = 0
              /\ resp.body.totalGainLoss = 0
    /\ Reported("GET /api/bonds/summary") =>
         /\ resp.body.totalInvested = InvestedInBonds
         /\ resp.body.currentValue = ValueOfBonds
         /\ resp.body.totalGainLoss = resp.body.currentValue - resp.body.totalInvested
         /\ DOMAIN bonds = {} =>
              /\ resp.body.totalInvested = 0
              /\ resp.body.currentValue = 0
              /\ resp.body.totalGainLoss = 0

\* the summary of two stocks, one of them at a loss, reports a loss
C4_Witness ==
    /\ Reported("GET /api/stocks/summary")
    /\ Cardinality(DOMAIN stocks) = 2
    /\ \E i \in DOMAIN stocks : stocks[i].current_price < stocks[i].purchase_price
    /\ resp.body.totalGainLoss < 0

\* the percentage return a report gives for a gain or loss and an invested sum
ReturnOf(percentage, gainLoss, invested) ==
    /\ ~NoNumber(percentage)
    /\ invested > 0 => percentage = Percent(gainLoss, invested)
    /\ invested = 0 => percentage = Zero

\* C5: in the stocks summary, the bonds summary and the overview, the
\* percentage return is the total gain or loss divided by the total invested,
\* times 100, whenever the total invested is above 0; it is 0 when nothing is
\* invested, as with no holdings; no report ever carries the result of a
\* division by zero.
C5_PercentageReturn ==
    /\ Reported("GET /api/stocks/summary") =>
         /\ ReturnOf(resp.body.percentageReturn,
                     ValueOfStocks - InvestedInStocks, InvestedInStocks)
         /\ DOMAIN stocks = {} => resp.body.percentageReturn = Zero
    /\ Reported("GET /api/bonds/summary") =>
         /\ ReturnOf(resp.body.percentageReturn,
                     ValueOfBonds - InvestedInBonds, InvestedInBonds)
         /\ DOMAIN bonds = {} => resp.body.percentageReturn = Zero
    /\ Reported("GET /api/portfolio/overview") =>
         /\ ReturnOf(resp.body.overview.totalReturnPercentage,
                     resp.body.overview.totalGainLoss,
                     resp.body.overview.totalInvested)
         /\ resp.body.overview.totalInvested
              = InvestedInStocks + InvestedInBonds * One
         /\ resp.body.overview.totalGainLoss
              = (ValueOfStocks - InvestedInStocks)
                + (ValueOfBonds - InvestedInBonds) * One
         /\ (DOMAIN stocks = {} /\ DOMAIN bonds = {})
              => resp.body.overview.totalReturnPercentage = Zero

\* the overview of a portfolio of stocks and a bond reports a return that is
\* not 0
C5_Witness ==
    /\ Reported("GET /api/portfolio/overview")
    /\ DOMAIN stocks # {} /\ DOMAIN bonds # {}
    /\ resp.body.overview.totalInvested > 0
    /\ resp.body.overview.totalReturnPercentage.num # 0

\* the shares two asset classes of these values have in a report
SharesOf(stocksShare, bondsShare, stocksValue, bondsValue, totalValue) ==
    /\ totalValue = stocksValue + bondsValue
    /\ totalValue > 0 =>
         /\ stocksShare = Percent(stocksValue, totalValue)
         /\ bondsShare = Percent(bondsValue, totalValue)
         /\ stocksShare.den = bondsShare.den
         /\ stocksShare.num + bondsShare.num = stocksShare.den
    /\ totalValue = 0 => stocksShare = Zero /\ bondsShare = Zero

\* C6: in GET /api/portfolio/allocation, and in the stocks.percentage and
\* bonds.percentage of the overview, totalValue is the value of the stocks
\* plus the value of the bonds, the percentage of a class is its value divided
\* by totalValue, times 100, the two percentages sum to 100 whenever totalValue
\* is above 0, and both are 0 when totalValue is 0.
C6_Allocation ==
    /\ Reported("GET /api/portfolio/allocation") =>
         /\ resp.body.assetClasses[1].value = ValueOfStocks
         /\ resp.body.assetClasses[2].value = ValueOfBonds * One
         /\ SharesOf(resp.body.assetClasses[1].percentage,
                     resp.body.assetClasses[2].percentage,
                     resp.body.assetClasses[1].value,
                     resp.body.assetClasses[2].value,
                     resp.body.totalValue)
    /\ Reported("GET /api/portfolio/overview") =>
         /\ resp.body.stocks.currentValue = ValueOfStocks
         /\ resp.body.bonds.currentValue = ValueOfBonds * One
         /\ SharesOf(resp.body.stocks.percentage, resp.body.bonds.percentage,
                     resp.body.stocks.currentValue, resp.body.bonds.currentValue,
                     resp.body.overview.totalCurrentValue)

\* the allocation of a portfolio in which both classes are worth something
C6_Witness ==
    /\ Reported("GET /api/portfolio/allocation")
    /\ resp.body.assetClasses[1].value > 0
    /\ resp.body.assetClasses[2].value > 0

\* the alerts of the alerts report, and the places of those of the stocks
Alerts == resp.body.alerts
StockAlertPlaces == {i \in DOMAIN Alerts : Alerts[i].type # "bond_maturity"}
BondAlertPlaces == {i \in DOMAIN Alerts : Alerts[i].type = "bond_maturity"}

\* |current - purchase| / purchase * 100 >= percent, of a purchase price
\* that is not 0 (the change from a price of 0 is no number)
MovedBy(current, purchase, percent) ==
    /\ purchase # 0
    /\ (IF current >= purchase THEN current - purchase ELSE purchase - current) * 100
         >= percent * purchase

MaturingOn(m) == {i \in DOMAIN bonds : bonds[i].maturity_date = m}

\* C8: on every day t the alerts hold a bond_maturity alert for a bond if and
\* only if 0 <= maturity_date - t <= 30; the severity of the alert is high if
\* and only if maturity_date - t <= 7 and medium otherwise; once the maturity
\* date has passed the bond has no maturity alert again.
C8_MaturityAlerts ==
    Reported("GET /api/portfolio/alerts") =>
        /\ \A m \in {bonds[i].maturity_date : i \in DOMAIN bonds}
                    \cup {Alerts[a].data.maturityDate : a \in BondAlertPlaces} :
             Cardinality({a \in BondAlertPlaces : Alerts[a].data.maturityDate = m})
               = IF 0 <= m - today /\ m - today <= 30
                 THEN Cardinality(MaturingOn(m)) ELSE 0
        /\ \A a \in BondAlertPlaces :
             /\ Alerts[a].data.daysToMaturity = Alerts[a].data.maturityDate - today
             /\ Alerts[a].severity
                  = IF Alerts[a].data.maturityDate - today <= 7
                    THEN "high" ELSE "medium"

\* of two bonds one has matured and has no alert, the other matures within
\* the week and has one of high severity
C8_Witness ==
    /\ Reported("GET /api/portfolio/alerts")
    /\ \E i \in DOMAIN bonds : bonds[i].maturity_date < today
    /\ Len(Alerts) = 1
    /\ Alerts[1].severity = "high"
    /\ Alerts[1].data.daysToMaturity > 0

\* the list of the upcoming maturities report
Upcoming == resp.body.upcomingMaturities

\* C9: GET /api/bonds/upcoming-maturities returns exactly the bonds whose
\* maturity date lies between today and today + 90 days inclusive, in order of
\* ascending maturity date, each with daysToMaturity = maturity_date - today;
\* so every bond that has a bond_maturity alert on a day is among the upcoming
\* maturities of that day.
C9_UpcomingMaturities ==
    Reported("GET /api/bonds/upcoming-maturities") =>
        /\ {Upcoming[a].id : a \in DOMAIN Upcoming}
             = {i \in DOMAIN bonds : /\ today <= bonds[i].maturity_date
                                     /\ bonds[i].maturity_date <= today + 90}
        /\ \A a, c \in DOMAIN Upcoming : a # c => Upcoming[a].id # Upcoming[c].id
        /\ \A a, c \in DOMAIN Upcoming :
             a < c => Upcoming[a].maturityDate <= Upcoming[c].maturityDate
        /\ \A a \in DOMAIN Upcoming :
             /\ Upcoming[a].maturityDate = bonds[Upcoming[a].id].maturity_date
             /\ Upcoming[a].daysToMaturity = Upcoming[a].maturityDate - today
        /\ MaturingWithin(AlertDays) \subseteq {Upcoming[a].id : a \in DOMAIN Upcoming}

\* of two bonds only one is upcoming, and it is one that has an alert
C9_Witness ==
    /\ Reported("GET /api/bonds/upcoming-maturities")
    /\ Cardinality(DOMAIN bonds) = 2
    /\ Len(Upcoming) = 1
    /\ Upcoming[1].id \in MaturingWithin(AlertDays)
    /\ Upcoming[1].daysToMaturity > 0

---------------------------------------------------------------------------
(* Properties of the stored rows *)

\* C11: in every reachable state every stock has quantity, purchase_price and
\* current_price >= 0, every bond has face_value, purchase_price,
\* current_price and coupon_rate >= 0, every cashflow entry has amount >= 0,
\* and so the division by purchase_price, which the list and the alerts make
\* for every stock, never divides by zero.
C11_NonNegative ==
    /\ \A i \in DOMAIN stocks :
         /\ stocks[i].quantity >= 0
         /\ stocks[i].purchase_price >= 0
         /\ stocks[i].current_price = NULL \/ stocks[i].current_price >= 0
    /\ \A i \in DOMAIN bonds :
         /\ bonds[i].face_value >= 0
         /\ bonds[i].purchase_price >= 0
         /\ bonds[i].current_price = NULL \/ bonds[i].current_price >= 0
         /\ bonds[i].coupon_rate >= 0
    /\ \A i \in DOMAIN cashflow : cashflow[i].amount >= 0
    /\ \A i \in DOMAIN stocks : stocks[i].purchase_price # 0

\* C12: every stored bond has a bond_type among government, corporate,
\* municipal and treasury and every stored cashflow entry a type among income
\* and expense; a POST with any other value is answered 400, and so is a PUT
\* whose body names bondType or type, so that no PUT changes the type of a
\* bond or of a cashflow entry.
C12_ClosedTypes ==
    [][today' = today =>
        /\ \A i \in DOMAIN bonds' :
             bonds'[i].bond_type \in {"government", "corporate", "municipal", "treasury"}
        /\ \A i \in DOMAIN cashflow' : cashflow'[i].type \in {"income", "expense"}
        /\ (/\ req'.op = PostRoutes.bonds
            /\ "bondType" \in DOMAIN req'.body
            /\ req'.body.bondType
                 \notin {"government", "corporate", "municipal", "treasury"})
             => resp'.status = 400 /\ UNCHANGED tables
        /\ (/\ req'.op = PostRoutes.cashflow
            /\ "type" \in DOMAIN req'.body
            /\ req'.body.type \notin {"income", "expense"})
             => resp'.status = 400 /\ UNCHANGED tables
        /\ (req'.op = PutRoutes.bonds /\ "bondType" \in DOMAIN req'.body)
             => resp'.status = 400 /\ UNCHANGED tables
        /\ (req'.op = PutRoutes.cashflow /\ "type" \in DOMAIN req'.body)
             => resp'.status = 400 /\ UNCHANGED tables
        /\ \A i \in DOMAIN bonds \cap DOMAIN bonds' :
             bonds'[i].bond_type = bonds[i].bond_type
        /\ \A i \in DOMAIN cashflow \cap DOMAIN cashflow' :
             cashflow'[i].type = cashflow[i].type]_vars

\* a PUT that names bondType, for a bond that exists, has been answered 400,
\* and the bond has the type it had
C12_Witness ==
    /\ req.op = PutRoutes.bonds
    /\ req.body = [bondType |-> "corporate"]
    /\ req.id \in DOMAIN bonds
    /\ bonds[req.id].bond_type = "treasury"
    /\ resp.status = 400

\* the rows of a table that are not of user 1
Foreign(table) == {i \in DOMAIN table : table[i].user_id # 1}

\* Around a step, of which before and after are the values of table t: a row
\* the step adds is of user 1, a row of another user stays as it was, no list
\* holds it, and a PUT or a DELETE on its id finds no row.
SingleUser(t, before, after) ==
    /\ \A i \in DOMAIN after \ DOMAIN before : after[i].user_id = 1
    /\ \A i \in Foreign(before) : i \in DOMAIN after /\ after[i] = before[i]
    /\ (req'.op = ListRoutes[t] /\ resp'.status = 200)
         => \A k \in DOMAIN Listed(t, resp'.body) :
               Listed(t, resp'.body)[k].id \notin Foreign(before)
    /\ (req'.op \in {PutRoutes[t], DeleteRoutes[t]} /\ req'.id \in Foreign(before))
         => resp'.status = 404

\* C13: every row a POST inserts has user_id = 1, and a row with another
\* user_id is never returned by a list, never counted by a summary, never
\* modified and never deleted: a PUT or a DELETE on its id answers 404.
C13_SingleUser ==
    [][/\ SingleUser("stocks", stocks, stocks')
       /\ SingleUser("bonds", bonds, bonds')
       /\ SingleUser("cashflow", cashflow, cashflow')
       /\ req'.op = "GET /api/stocks/summary"
            => LET own == DOMAIN stocks \ Foreign(stocks)
               IN /\ resp'.body.totalStocks = Cardinality(own)
                  /\ resp'.body.totalInvested =
                       SumOver([i \in own |->
                                   stocks[i].quantity * stocks[i].purchase_price], own)
       /\ req'.op = "GET /api/bonds/summary"
            => LET own == DOMAIN bonds \ Foreign(bonds)
               IN /\ resp'.body.totalBonds = Cardinality(own)
                  /\ resp'.body.totalInvested =
                       SumOver([i \in own |-> bonds[i].purchase_price], own)]_vars

\* user 1 holds a stock of the symbol another user holds, and a DELETE on the
\* other user's stock has been answered 404
C13_Witness ==
    /\ \E i \in Foreign(stocks), j \in DOMAIN stocks \ Foreign(stocks) :
          stocks[i].symbol = stocks[j].symbol
    /\ req.op = DeleteRoutes.stocks
    /\ req.id \in Foreign(stocks)
    /\ resp.status = 404

----------------------------------------------------------------------------
(* Properties of the cashflow summary *)

\* the entries dated within the last n days: from n days ago up to today
WithinLast(n) ==
    {i \in DOMAIN cashflow : today - n <= cashflow[i].date /\ cashflow[i].date <= today}
AmountOf(type, ids) ==
    SumOver([i \in ids |-> IF cashflow[i].type = type THEN cashflow[i].amount ELSE 0],
            ids)
\* the days the period of a summary request stands for
WindowOf(q) ==
    IF "period" \notin DOMAIN q THEN 30
    ELSE CASE q.period = "weekly" -> 7
           [] q.period = "monthly" -> 30
           [] q.period = "quarterly" -> 90
           [] q.period = "yearly" -> 365
           [] OTHER -> 30

\* C14: GET /api/cashflow/summary with period weekly, monthly, quarterly or
\* yearly sums only the entries dated within the last 7, 30, 90 or 365 days
\* (30 for a missing or unrecognised period): totalIncome and totalExpenses
\* are the sums of the amounts of the income and the expense entries of that
\* window, netCashflow = totalIncome - totalExpenses, and savingsRate =
\* netCashflow / totalIncome * 100 when totalIncome > 0 and 0 otherwise.
C14_CashflowSummary ==
    Reported("GET /api/cashflow/summary") =>
        LET ids == WithinLast(WindowOf(req.body))
            income == AmountOf("income", ids)
            expenses == AmountOf("expense", ids)
        IN /\ resp.body.totalIncome = income
           /\ resp.body.totalExpenses = expenses
           /\ resp.body.netCashflow = income - expenses
           /\ resp.body.savingsRate =
                IF income > 0 THEN Percent(income - expenses, income) ELSE Zero

----------------------------------------------------------------------------
(* Properties of a symbol added twice *)

\* the request of the step is a POST /api/stocks whose symbol a stock has
AddsHeldSymbol ==
    /\ req'.op = PostRoutes.stocks
    /\ "symbol" \in DOMAIN req'.body
    /\ \E i \in DOMAIN stocks : stocks[i].symbol = req'.body.symbol

\* C15, as the specification words it: when a stock with the submitted symbol
\* exists, POST /api/stocks answers 400 'Stock already exists in portfolio',
\* inserts nothing and leaves the existing stock as it was.
C15_DuplicateSymbol ==
    [][AddsHeldSymbol =>
        /\ resp'.status = 400
        /\ resp'.body.message = "Stock already exists in portfolio"
        /\ stocks' = stocks]_vars

\* C15, as the code has it: when a stock with the submitted symbol exists,
\* POST /api/stocks answers 400 and leaves the table as it was; the message is
\* 'Stock already exists in portfolio' for a body that passes stockSchema, and
\* the message of the schema for a body that fails it, which is found before
\* the symbol is looked up.
C15_DuplicateValid ==
    [][AddsHeldSymbol =>
        /\ resp'.status = 400
        /\ stocks' = stocks
        /\ resp'.body.message =
             IF stockSchema(req'.body) = <<>>
             THEN "Stock already exists in portfolio"
             ELSE stockSchema(req'.body)]_vars

\* a POST with a body that passes the schema has been answered 'Stock already
\* exists in portfolio', the stock of that symbol being there
C15_Witness ==
    /\ req.op = PostRoutes.stocks
    /\ stockSchema(req.body) = <<>>
    /\ \E i \in DOMAIN stocks :
          stocks[i].symbol = req.body.symbol /\ stocks[i].updated_at = req.day
    /\ resp.status = 400
    /\ resp.body.message = "Stock already exists in portfolio"

----------------------------------------------------------------------------
(* Properties of the 500 responses *)

\* the message of the catch block of each route
ServerError ==
    [op \in {PostRoutes.stocks, PutRoutes.stocks, DeleteRoutes.stocks,
             ListRoutes.stocks, PostRoutes.bonds, PutRoutes.bonds,
             DeleteRoutes.bonds, ListRoutes.bonds, PostRoutes.cashflow,
             PutRoutes.cashflow, DeleteRoutes.cashflow, ListRoutes.cashflow} |->
        CASE op = PostRoutes.stocks -> "Server error adding stock"
          [] op = PutRoutes.stocks -> "Server error updating stock"
          [] op = DeleteRoutes.stocks -> "Server error deleting stock"
          [] op = ListRoutes.stocks -> "Server error fetching stocks"
          [] op = PostRoutes.bonds -> "Server error adding bond"
          [] op = PutRoutes.bonds -> "Server error updating bond"
          [] op = DeleteRoutes.bonds -> "Server error deleting bond"
          [] op = ListRoutes.bonds -> "Server error fetching bonds"
          [] op = PostRoutes.cashflow -> "Server error adding cashflow"
          [] op = PutRoutes.cashflow -> "Server error updating cashflow"
          [] op = DeleteRoutes.cashflow -> "Server error deleting cashflow"
          [] op = ListRoutes.cashflow -> "Server error fetching cashflows"]

\* C16: a 500 of a route handler carries the fixed 'Server error ...' message
\* of its route and nothing else, whichever statement or mapping threw; the
\* 500 of the error handling middleware carries 'Something went wrong!' and
\* the message of the exception only when NODE_ENV is 'development': outside
\* development its body is the same for every exception.
C16_GenericErrors ==
    resp.status = 500 =>
        IF req.op = "error middleware"
        THEN /\ resp.body.message = "Something went wrong!"
             /\ DOMAIN resp.body = {"message", "error"}
             /\ resp.body.error =
                  IF req.body.NODE_ENV = "development"
                  THEN [string |-> req.body.err.message]
                  ELSE [object |-> <<>>]
        ELSE /\ req.op \in DOMAIN ServerError
             /\ resp.body = [message |-> ServerError[req.op]]

\* outside development the middleware has answered an error that has a message
\* with 500, while the tables hold a bond
C16_Witness ==
    /\ req.op = "error middleware"
    /\ req.body.NODE_ENV = "production"
    /\ req.body.err.message = "request entity too large"
    /\ resp.status = 500
    /\ DOMAIN bonds # {}

----------------------------------------------------------------------------
(* Properties of requests handled at a time *)

\* C17: whichever way the statements of POST /api/stocks requests, for the same
\* symbol or not, come between one another, the stocks table never holds two
\* rows of user 1 with the same symbol.
C17_OneRowPerSymbol ==
    \A i, j \in DOMAIN stocks :
        (i # j /\ stocks[i].user_id = 1 /\ stocks[j].user_id = 1)
            => stocks[i].symbol # stocks[j].symbol

\* C18: whichever way the statements of PUT and DELETE requests for the same
\* id come between one another, when PUT /api/stocks/:id answers 200 the row
\* of that id was there when the UPDATE ran and holds the submitted values
\* after it, and for each row at most one DELETE answers 200.
C18_RealChange ==
    [][\A p \in Slots :
        /\ (/\ inflight[p].pc = "UPDATE stocks"
            /\ inflight'[p].pc = "idle"
            /\ resp'.status = 200)
             => /\ req'.id \in DOMAIN stocks
                /\ req'.id \in DOMAIN stocks'
                /\ \A k \in DOMAIN req'.body :
                      stocks'[req'.id][StockColumn(k)] = req'.body[k]
        /\ (/\ inflight[p].pc = "DELETE stocks"
            /\ inflight'[p].pc = "idle"
            /\ resp'.status = 200)
             => req'.id \notin deleted.stocks]_vars

\* the sum of the values of the rows of a list of an allocation response
ValuesOf(list) == SumOver([k \in DOMAIN list |-> list[k].value], DOMAIN list)

\* C19: in every GET /api/portfolio/allocation response the stockSectors
\* values sum to the value of the 'Stocks' asset class and the bondTypes values
\* to that of 'Bonds', also when requests that write run between the
\* statements of the handler.
C19_ConsistentAllocation ==
    Reported("GET /api/portfolio/allocation") =>
        /\ ValuesOf(resp.body.stockSectors) = resp.body.assetClasses[1].value
        /\ ValuesOf(resp.body.bondTypes) = resp.body.assetClasses[2].value

----------------------------------------------------------------------------
(* Properties of the bodies PUT accepts *)

\* Around a PUT on an id the table t holds, with a body that passes the
\* update schema of t: the answer is 200, and with the empty body the row is
\* as it was.
PatchAccepted(t, before, after) ==
    (/\ req'.op = PutRoutes[t]
     /\ req'.id \in DOMAIN before
     /\ ~UpdateSchemaFails(t, req'.body))
        => /\ resp'.status = 200
           /\ req'.body = EmptyBody
                => /\ req'.id \in DOMAIN after
                   /\ \A c \in DOMAIN before[req'.id] \ {"updated_at"} :
                         after[req'.id][c] = before[req'.id][c]

\* C20: for an existing id and every body that passes the update schema, the
\* empty object among them, PUT /api/{stocks,bonds,cashflow}/:id answers 200
\* and never 500, and with the empty body the data fields of the row are
\* unchanged.
C20_PatchAccepted ==
    [][/\ PatchAccepted("stocks", stocks, stocks')
       /\ PatchAccepted("bonds", bonds, bonds')
       /\ PatchAccepted("cashflow", cashflow, cashflow')]_vars

----------------------------------------------------------------------------
(* Properties of a create that fails *)

\* C21: whenever POST /api/{stocks,bonds,cashflow} answers 400 or 500 the
\* tables hold exactly the rows they held before the request: no 500 is
\* answered for a row that was in fact inserted.
C21_FailedCreateLeavesNothing ==
    [][(/\ req'.op \in {PostRoutes.stocks, PostRoutes.bonds, PostRoutes.cashflow}
        /\ resp'.status \in {400, 500})
          => /\ stocks' = stocks
             /\ bonds' = bonds
             /\ cashflow' = cashflow]_vars

----------------------------------------------------------------------------
(* Properties of a holding as it is created *)

\* Around a step, of which before and after are the values of table t: a row
\* the step adds has current_price = purchase_price, and the two prices of a
\* row change only by a PUT on its id, answered 200, that names currentPrice or
\* purchasePrice.
AtCost(t, before, after) ==
    /\ \A i \in DOMAIN after \ DOMAIN before :
          after[i].current_price = after[i].purchase_price
    /\ \A i \in DOMAIN after \cap DOMAIN before :
          (\/ after[i].current_price # before[i].current_price
           \/ after[i].purchase_price # before[i].purchase_price)
             => /\ req'.op = PutRoutes[t]
                /\ req'.id = i
                /\ resp'.status = 200
                /\ DOMAIN req'.body \cap {"currentPrice", "purchasePrice"} # {}

\* C22: a stock or a bond that a POST inserts has current_price =
\* purchase_price; as long as the two are equal the lists give it a gain/loss
\* and a percentage change of 0 and the alerts hold no price alert for it; and
\* the prices change only by a PUT on its id that sets currentPrice or
\* purchasePrice.
C22_StartsAtCost ==
    [][/\ AtCost("stocks", stocks, stocks')
       /\ AtCost("bonds", bonds, bonds')
       /\ (req'.op = ListRoutes.stocks /\ resp'.status = 200)
            => \A k \in DOMAIN resp'.body.stocks :
                  LET item == resp'.body.stocks[k]
                  IN stocks[item.id].current_price = stocks[item.id].purchase_price
                       => /\ item.currentPrice = item.purchasePrice
                          /\ item.unrealizedGainLoss = 0
                          /\ item.percentageChange.num = 0
                          /\ item.percentageChange.den # 0
       /\ (req'.op = ListRoutes.bonds /\ resp'.status = 200)
            => \A k \in DOMAIN resp'.body.bonds :
                  LET item == resp'.body.bonds[k]
                  IN bonds[item.id].current_price = bonds[item.id].purchase_price
                       => item.currentPrice = item.purchasePrice /\ item.gainLoss = 0
       /\ (req'.op = "GET /api/portfolio/alerts" /\ resp'.status = 200)
            => \A a \in DOMAIN resp'.body.alerts :
                  resp'.body.alerts[a].type # "bond_maturity"
                    => ~\E i \in DOMAIN stocks :
                          /\ stocks[i].symbol = resp'.body.alerts[a].data.symbol
                          /\ stocks[i].current_price = stocks[i].purchase_price]_vars

\* the alerts, of a stock as it was created and of a stock whose price a PUT
\* has raised by 20 percent, hold one price alert
C22_Witness ==
    /\ Reported("GET /api/portfolio/alerts")
    /\ \E i, j \in DOMAIN stocks :
          /\ stocks[i].current_price = stocks[i].purchase_price
          /\ stocks[i].updated_at = 0
          /\ MovedBy(stocks[j].current_price, stocks[j].purchase_price, 20)
    /\ Cardinality(StockAlertPlaces) = 1

----------------------------------------------------------------------------
(* Properties of the overview *)

\* the entries of the cashflow table dated no more than n days ago
NoOlderThan(n) == {i \in DOMAIN cashflow : cashflow[i].date >= today - n}

----------------------------------------------------------------------------
(* Properties of the performance *)

\* the days of the period a performance request names: 1, 3, 6 months, a year
\* (also for no period and for one that is none of these), or all the past
DaysOf(q) ==
    IF "period" \notin DOMAIN q THEN 365
    ELSE CASE q.period = "1m" -> 30
           [] q.period = "3m" -> 90
           [] q.period = "6m" -> 180
           [] q.period = "all" -> 100000
           [] OTHER -> 365

\* the dates, on or after today minus n days, of the rows of a table
DatesSince(table, column, n) ==
    {table[i][column] : i \in {j \in DOMAIN table : table[j][column] >= today - n}}
\* the dates of the groups of a list of a performance response
DatesOf(list) == {list[k].date : k \in DOMAIN list}

\* C24: GET /api/portfolio/performance answers with the groups of the stocks
\* and the bonds whose purchase_date, and of the cashflow entries whose date,
\* is on or after today minus the period (1m, 3m, 6m, 1y; 1y for a missing or
\* unrecognised period; every record for 'all'); each group has return =
\* currentValue - invested (net = income - expenses), and the groups come by
\* date ascending.
C24_PerformancePeriod ==
    (req.op = "GET /api/portfolio/performance" /\ req.day = today) =>
        /\ resp.status = 200
        /\ DatesOf(resp.body.stocks)
             = DatesSince(stocks, "purchase_date", DaysOf(req.body))
        /\ DatesOf(resp.body.bonds)
             = DatesSince(bonds, "purchase_date", DaysOf(req.body))
        /\ DatesOf(resp.body.cashflow) = DatesSince(cashflow, "date", DaysOf(req.body))
        /\ \A k \in DOMAIN resp.body.stocks :
              resp.body.stocks[k].return
                = resp.body.stocks[k].currentValue - resp.body.stocks[k].invested
        /\ \A k \in DOMAIN resp.body.cashflow :
              resp.body.cashflow[k].net
                = resp.body.cashflow[k].income - resp.body.cashflow[k].expenses
        /\ \A k, l \in DOMAIN resp.body.stocks :
              k < l => resp.body.stocks[k].date < resp.body.stocks[l].date

----------------------------------------------------------------------------
(* Properties of the cashflow list *)

\* the entries of user 1 that match every filter of the query q
Matching(q) ==
    {i \in DOMAIN cashflow :
        /\ cashflow[i].user_id = 1
        /\ ("type" \in DOMAIN q /\ q.type \in {"income", "expense"})
             => cashflow[i].type = q.type
        /\ "category" \in DOMAIN q => cashflow[i].category = q.category
        /\ "startDate" \in DOMAIN q => cashflow[i].date >= q.startDate
        /\ "endDate" \in DOMAIN q => cashflow[i].date <= q.endDate}

\* ids is the sequence of the entries of S by date descending, then creation
\* time descending, without the first offset and with at most limit of them
PageOf(ids, S, offset, limit) ==
    \E s \in [1..Cardinality(S) -> S] :
        /\ \A i, j \in DOMAIN s : i # j => s[i] # s[j]
        /\ \A i, j \in DOMAIN s :
             i < j => \/ cashflow[s[i]].date > cashflow[s[j]].date
                      \/ /\ cashflow[s[i]].date = cashflow[s[j]].date
                         /\ cashflow[s[i]].created_at >= cashflow[s[j]].created_at
        /\ Len(ids) = (IF Len(s) - offset < 0 THEN 0
                       ELSE IF Len(s) - offset > limit THEN limit
                       ELSE Len(s) - offset)
        /\ \A k \in DOMAIN ids : ids[k] = s[offset + k]

\* C25: GET /api/cashflow returns exactly the entries of user 1 that match
\* all the supplied filters (a type that is neither income nor expense is
\* ignored), by date descending then creation time descending, without the
\* first offset entries (default 0) and at most limit of them (default 100).
C25_CashflowList ==
    (req.op = "GET /api/cashflow" /\ req.day = today) =>
        /\ resp.status = 200
        /\ PageOf([k \in DOMAIN resp.body.cashflows |-> resp.body.cashflows[k].id],
                  Matching(req.body),
                  IF "offset" \in DOMAIN req.body THEN req.body.offset ELSE 0,
                  IF "limit" \in DOMAIN req.body THEN req.body.limit ELSE 100)


---------------------------------------------------------------------------
(* Start-up of the server *)

\* node server.js: a new process, whose db is declared and not yet assigned;
\* table users is the database's and outlives the process
StartServer ==
    /\ server' = [server EXCEPT !.init = "none", !.listening = FALSE, !.db = FALSE]
    /\ UNCHANGED <<tables, today, req, resp, deleted, inflight, dashboard>>

\* db = await mysql.createConnection(...) of initDatabase, which either
\* connects or throws into the catch that ends the process with code 1
Connect ==
    /\ server.init = "none"
    /\ \E connected \in BOOLEAN :
         server' = IF connected
                   THEN [server EXCEPT !.init = "connected", !.db = TRUE]
                   ELSE [server EXCEPT !.init = "exited"]
    /\ UNCHANGED <<tables, today, req, resp, deleted, inflight, dashboard>>

\* INSERT IGNORE INTO users (id, username, ...) VALUES (1, 'portfolio_user',
\* ...): no row is added where one holds the id or the username
InsertIgnore(users, row) ==
    IF \E u \in users : u.id = row.id \/ u.username = row.username
    THEN users ELSE users \cup {row}

\* await db.execute(INSERT IGNORE ...) of initDatabase, which either runs or
\* throws into the catch that ends the process with code 1
EnsureUser ==
    /\ server.init = "connected"
    /\ \E executed \in BOOLEAN :
         server' = IF executed
                   THEN [server EXCEPT !.init = "ensured",
                                       !.users = InsertIgnore(server.users, DefaultUser)]
                   ELSE [server EXCEPT !.init = "exited"]
    /\ UNCHANGED <<tables, today, req, resp, deleted, inflight, dashboard>>

\* a start-up that calls app.listen without awaiting initDatabase
ListenMutant == server.init \in {"none", "connected", "ensured"}
\* await initDatabase() of startServer has returned
InitDatabaseReturned == server.init = "ensured"

\* app.listen(PORT, ...) of startServer
Listen ==
    /\ InitDatabaseReturned
    /\ ~server.listening
    /\ server' = [server EXCEPT !.listening = TRUE]
    /\ UNCHANGED <<tables, today, req, resp, deleted, inflight, dashboard>>

\* the process before node has run server.js, on a database the schema has
\* just created
InitServer ==
    /\ stocks = <<>>
    /\ bonds = <<>>
    /\ cashflow = <<>>
    /\ nextId = [stocks |-> 1, bonds |-> 1, cashflow |-> 1]
    /\ today = 0
    /\ req = Request("none", 0, EmptyBody)
    /\ resp = [status |-> 0, body |-> <<>>]
    /\ deleted = [stocks |-> {}, bonds |-> {}, cashflow |-> {}]
    /\ inflight = [p \in Slots |-> Idle]
    /\ server = [init |-> "exited", listening |-> FALSE, db |-> FALSE, users |-> {}]
    /\ dashboard = Unmounted

\* The start-up, and the requests a listening server hands to its routes.
NextServer ==
    \/ StartServer
    \/ Connect
    \/ EnsureUser
    \/ Listen
    \/ \E b \in {StockBody("AAA", 500), StockBody("BBB", 4)} :
         server.listening /\ nextId.stocks <= MaxId /\ PostStock(b)
    \/ \E id \in Ids(MaxId), b \in {[currentPrice |-> 600], [quantity |-> 20]} :
         server.listening /\ PutStock(id, b)
    \/ \E id \in Ids(MaxId) : server.listening /\ DeleteStock(id)
    \/ server.listening /\ GetStocks

SpecServer == InitServer /\ [][NextServer]_vars

---------------------------------------------------------------------------
(* Claims: the server accepts requests only once the database is ready *)

\* a step in which a route has handled a request
Handled == req' # req \/ resp' # resp \/ tables' # tables

\* C26: the server listens only once the connection is established and the
\* user of id 1 is ensured, so that every request a route handles sees a
\* defined req.db and user 1; a start-up whose connection or INSERT fails
\* exits, and never listens; and however often the server is restarted,
\* table users holds no more than one row of id 1, and exactly one once a
\* start-up has ensured it.
C26_ListensWhenReady ==
    [][/\ server'.listening =>
            /\ server'.db
            /\ Cardinality({u \in server'.users : u.id = SINGLE_USER_ID}) = 1
       /\ Handled => server.db /\ \E u \in server.users : u.id = SINGLE_USER_ID
       /\ server.init = "exited" =>
            ~server.listening /\ (server'.listening => server'.init # "exited")
       /\ server'.init = "exited" => ~server'.listening
       /\ Cardinality({u \in server'.users : u.id = SINGLE_USER_ID}) <= 1
       /\ server'.init = "ensured" => server'.users = {DefaultUser}]_vars

\* a server that has listened and added a stock is started again, and has
\* ensured the user a second time
C26_Witness ==
    /\ server.init = "ensured"
    /\ ~server.listening
    /\ server.users = {DefaultUser}
    /\ nextId.stocks > 1
    /\ resp.status = 201


---------------------------------------------------------------------------
(* Claims: every request gets one response *)

\* app.use('*', ...), which answers the requests no route has matched
NotFound(path) ==
    /\ Respond(Request(path, 0, EmptyBody), 404, [message |-> "Route not found"])
    /\ UNCHANGED <<tables, today>>

\* requests no router has a route for
Unmatched == {"GET /api/stocks/:id", "GET /api/nowhere"}

\* the statement a request in flight runs next
Resume(p) ==
    \/ PostStockInsert(p)
    \/ PostStockReselect(p)
    \/ PutStockUpdate(p)
    \/ DeleteStockDelete(p)
    \/ AllocationBondTypes(p)
    \/ AllocationTotals(p)

\* The routes of the four routers, those of stocks and the allocation a
\* statement at a time, with bodies that are valid, that fail validation and
\* that make a statement throw; and paths that no route matches.
NextResponses ==
    \/ \E p \in Slots :
        \/ \E b \in {StockBody("AAA", 50), StockBodyBare("BBB"), [symbol |-> "AAA", quantity |-> 10]} :
            /\ nextId.stocks
                 + Cardinality({q \in Slots : inflight[q].pc = "INSERT stocks"}) <= MaxOther
            /\ PostStockSelect(p, b)
        \/ \E id \in Ids(MaxOther), b \in {[currentPrice |-> 600], EmptyBody} :
             PutStockSelect(p, id, b)
        \/ \E id \in Ids(MaxOther) : DeleteStockSelect(p, id)
        \/ AllocationSectors(p)
        \/ Resume(p)
    \/ \E b \in {BondBody(today + 1, 500000), BondBody(today + 1, CouponColumnMax + 10)} :
         nextId.bonds <= MaxOther /\ PostBond(b)
    \/ \E b \in {CashflowBody("income", <<"x">>)} :
         nextId.cashflow <= MaxOther /\ PostCashflow(b)
    \/ GetCashflow(EmptyBody)
    \/ GetOverview
    \/ \E path \in Unmatched : NotFound(path)

SpecResponses == Init /\ [][NextResponses]_vars

Statuses == {200, 201, 400, 404, 500}

\* C27: every request gets exactly one response.  A request that awaits a
\* statement has not been answered and can run the statement; the step that
\* ends it sends its response, and a step that does not end it sends none;
\* the status of every response is 200, 201, 400, 404 or 500; and a path
\* that no route matches gets 404 'Route not found'.
C27_OneResponse ==
    [][/\ \A p \in Slots :
            /\ inflight[p] # Idle => ENABLED Resume(p)
            /\ inflight[p] # Idle /\ inflight'[p] = Idle =>
                 req' = inflight[p].r /\ resp'.status \in Statuses
            /\ inflight'[p] # Idle /\ inflight'[p] # inflight[p] =>
                 UNCHANGED <<req, resp>>
       /\ Cardinality({p \in Slots : inflight'[p] # inflight[p]}) <= 1
       /\ resp' # resp => resp'.status \in Statuses
       /\ req'.op \in Unmatched =>
            resp' = [status |-> 404, body |-> [message |-> "Route not found"]]]_vars

\* a statement of POST /api/stocks has thrown and the request is answered
\* 500, while another request awaits its statement
C27_Witness ==
    /\ req.op = "POST /api/stocks"
    /\ resp.status = 500
    /\ \E p \in Slots : inflight[p] # Idle


---------------------------------------------------------------------------
(* The Dashboard component *)

\* a request that axios has sent and that has not settled, and one that has
\* failed: no response, or a status outside 2xx
Pending == [pending |-> TRUE]
Rejected == [rejected |-> TRUE]
Settled(response) == response \notin {JsNull, Pending}
Fulfilled(response) == Settled(response) /\ response # Rejected

\* useEffect(() => { fetchDashboardData(); }, []): after the first render the
\* two requests are sent, and Promise.all awaits them
FetchDashboardData ==
    /\ dashboard.pc = "mounted"
    /\ dashboard' = [dashboard EXCEPT !.pc = "Promise.all",
                                      !.overviewResponse = Pending,
                                      !.alertsResponse = Pending]
    /\ UNCHANGED <<tables, today, req, resp, deleted, inflight, server>>

\* axios.get('/portfolio/overview') settles
OverviewResponds ==
    /\ dashboard.overviewResponse = Pending
    /\ \E ok \in BOOLEAN :
         dashboard' = [dashboard EXCEPT !.overviewResponse =
                          IF ok THEN [data |-> OverviewJson] ELSE Rejected]
    /\ UNCHANGED <<tables, today, req, resp, deleted, inflight, server>>

\* axios.get('/portfolio/alerts') settles
AlertsResponds ==
    /\ dashboard.alertsResponse = Pending
    /\ \E ok \in BOOLEAN, body \in AlertsJson :
         dashboard' = [dashboard EXCEPT !.alertsResponse =
                          IF ok THEN [data |-> body] ELSE Rejected]
    /\ UNCHANGED <<tables, today, req, resp, deleted, inflight, server>>

\* Promise.all fulfils once both requests have, and rejects once one has
PromiseAll(overviewResponse, alertsResponse) ==
    IF Rejected \in {overviewResponse, alertsResponse} THEN "rejected"
    ELSE IF Fulfilled(overviewResponse) /\ Fulfilled(alertsResponse) THEN "fulfilled"
    ELSE "pending"

\* setData({overview: overviewResponse.data, alerts: alertsResponse.data.alerts})
SetData ==
    /\ dashboard.pc = "Promise.all"
    /\ PromiseAll(dashboard.overviewResponse, dashboard.alertsResponse) = "fulfilled"
    /\ dashboard' = [dashboard EXCEPT
                        !.pc = "finally",
                        !.data = [overview |-> dashboard.overviewResponse.data,
                                  alerts |-> dashboard.alertsResponse.data.alerts]]
    /\ UNCHANGED <<tables, today, req, resp, deleted, inflight, server>>

\* catch (err) { setError('Failed to load dashboard data') }
SetError ==
    /\ dashboard.pc = "Promise.all"
    /\ PromiseAll(dashboard.overviewResponse, dashboard.alertsResponse) = "rejected"
    /\ dashboard' = [dashboard EXCEPT !.pc = "finally",
                                      !.error = "Failed to load dashboard data"]
    /\ UNCHANGED <<tables, today, req, resp, deleted, inflight, server>>

\* finally { setLoading(false) }
SetLoading ==
    /\ dashboard.pc = "finally"
    /\ dashboard' = [dashboard EXCEPT !.pc = "done", !.loading = FALSE]
    /\ UNCHANGED <<tables, today, req, resp, deleted, inflight, server>>

\* a page that draws the chart whatever the total
ChartShownMutant(totalCurrentValue) == TRUE
\* portfolioOverview.totalCurrentValue > 0 ? <Doughnut .../> : 'No assets to display'
ChartShown(totalCurrentValue) == totalCurrentValue > 0

\* what the component renders in a state: the spinner, the error, or the
\* page; a TypeError where it destructures a data that is null
Render(d) ==
    IF d.loading THEN [shows |-> "CircularProgress"]
    ELSE IF d.error # "" THEN [shows |-> "Alert", message |-> d.error]
    ELSE IF d.data = JsNull \/ d.data.overview = JsNull THEN [shows |-> "TypeError"]
    ELSE [shows |-> "Dashboard",
          totalCurrentValue |-> d.data.overview.overview.totalCurrentValue,
          allocationChart |-> ChartShown(d.data.overview.overview.totalCurrentValue),
          alerts |-> d.data.alerts]

\* The component from its first render on, and the stocks and bonds that are
\* added and repriced meanwhile.
NextDashboard ==
    \/ FetchDashboardData
    \/ OverviewResponds
    \/ AlertsResponds
    \/ SetData
    \/ SetError
    \/ SetLoading
    \/ \E b \in {StockBody("AAA", 500), StockBody("BBB", 4)} :
         nextId.stocks <= MaxId /\ PostStock(b)
    \/ \E id \in Ids(MaxId), b \in {[currentPrice |-> 600]} : PutStock(id, b)
    \/ \E b \in {BondBody(today + 1, 500000)} : nextId.bonds <= MaxOther /\ PostBond(b)

Load ==
    \/ FetchDashboardData
    \/ OverviewResponds
    \/ AlertsResponds
    \/ SetData
    \/ SetError
    \/ SetLoading

SpecDashboard == Init /\ [][NextDashboard]_vars
\* The effect runs after the first render, each request settles, by a response
\* or by an error of the network, and the continuations of the promise run.
SpecDashboardLive == SpecDashboard /\ WF_vars(Load)

---------------------------------------------------------------------------
(* Claims: the load of the dashboard *)

\* C28: the component starts loading, sends the two requests once and leaves
\* the loading state at last, whether they succeed or fail.  In every state,
\* when it is not loading and has no error its data holds the overview and
\* the alerts, so that the render never destructures null; when a request
\* has failed the error is what it shows once loaded, and it holds no data;
\* and the allocation chart is drawn when, and only when, totalCurrentValue
\* is above 0.
C28_DashboardSafe ==
    LET d == dashboard
        view == Render(d)
    IN
    /\ d.pc = "mounted" => d.loading
    /\ ~d.loading /\ d.error = "" =>
         /\ d.data # JsNull
         /\ DOMAIN d.data = {"overview", "alerts"}
         /\ d.data.overview = d.overviewResponse.data
         /\ d.data.alerts = d.alertsResponse.data.alerts
    /\ view.shows # "TypeError"
    /\ Rejected \in {d.overviewResponse, d.alertsResponse} =>
         /\ d.data = JsNull
         /\ ~d.loading => view = [shows |-> "Alert", message |-> "Failed to load dashboard data"]
    /\ d.error # "" => d.data = JsNull
    /\ view.shows = "Dashboard" => (view.allocationChart <=> view.totalCurrentValue > 0)
C28_RequestsOnce ==
    /\ dashboard'.overviewResponse = Pending /\ dashboard.overviewResponse # Pending =>
         dashboard.pc = "mounted"
    /\ dashboard'.alertsResponse = Pending /\ dashboard.alertsResponse # Pending =>
         dashboard.pc = "mounted"
    /\ dashboard.pc # "mounted" => dashboard'.pc # "mounted"
C28_DashboardLoad ==
    /\ []C28_DashboardSafe
    /\ [][C28_RequestsOnce]_vars
    /\ <>(~dashboard.loading)

\* the page of a portfolio that holds nothing is shown without the chart
C28_Witness ==
    /\ Render(dashboard).shows = "Dashboard"
    /\ ~Render(dashboard).allocationChart
    /\ dashboard.pc = "done"


---------------------------------------------------------------------------
(* Claims: a bond, created then fetched *)

\* C29: for every body that passes bondSchema, whatever its couponRate from 0
\* to 100, POST /api/bonds responds 201 and the list of GET /api/bonds then
\* holds the bond with the couponRate, faceValue and purchasePrice submitted
\* and with annualCoupon = faceValue * couponRate / 100.
C29_BondCreateThenFetch ==
    [][\A b \in BondBodiesValid(MaturityDates) :
        (bondSchema(b) = <<>> /\ PostBond(b))
        => /\ resp'.status = 201
           /\ LET id == resp'.body.bond.id
                  listed == BondListJson(bonds'[id])
              IN /\ id \in UserBonds'
                 /\ listed.couponRate = b.couponRate
                 /\ listed.faceValue = b.faceValue
                 /\ listed.purchasePrice = b.purchasePrice
                 /\ listed.annualCoupon = b.faceValue * b.couponRate]_vars


---------------------------------------------------------------------------
(* Claims: the columns an update can write *)

\* the columns each update may name
Whitelist ==
    [stocks |-> {"quantity", "purchase_price", "current_price", "sector", "notes"},
     bonds |-> {"face_value", "coupon_rate", "purchase_price", "current_price",
                "rating", "notes"},
     cashflow |-> {"category", "amount", "description", "date", "is_recurring",
                   "recurring_frequency", "tags"}]

\* of a PUT on table t whose body names the columns in named: a body that
\* names a column outside the whitelist is answered 400 and changes nothing,
\* and whatever the body, no row but the addressed one changes and that one
\* in whitelisted columns (and updated_at) only
WhitelistedUpdate(t, before, after, named) ==
    req'.op = PutRoutes[t] =>
        /\ ~(named \subseteq Whitelist[t]) => resp'.status = 400 /\ after = before
        /\ DOMAIN after = DOMAIN before
        /\ \A i \in DOMAIN before :
             \A c \in DOMAIN before[i] :
                after[i][c] # before[i][c] =>
                   /\ i = req'.id
                   /\ c \in Whitelist[t] \cup {"updated_at"}
                   /\ c = "updated_at" \/ c \in named

\* C30: for every body, the columns PUT /api/{stocks,bonds,cashflow}/:id names
\* in its UPDATE are columns the update schema allows; a body with any other
\* key is answered 400 and no statement runs, so that id, user_id, symbol,
\* issuer, maturity_date and the type columns never change.
C30_WhitelistedColumns ==
    [][/\ WhitelistedUpdate("stocks", stocks, stocks',
                            {StockColumn(k) : k \in DOMAIN req'.body})
       /\ WhitelistedUpdate("bonds", bonds, bonds',
                            {BondColumn(k) : k \in DOMAIN req'.body})
       /\ WhitelistedUpdate("cashflow", cashflow, cashflow',
                            {CashflowColumn(k) : k \in DOMAIN req'.body})
       /\ req'.op \in {PutRoutes.stocks, PutRoutes.bonds, PutRoutes.cashflow} =>
            UNCHANGED nextId]_vars

\* a PUT that names the symbol of a stock that is held has been answered 400
C30_Witness ==
    /\ req.op = PutRoutes.stocks
    /\ "symbol" \in DOMAIN req.body
    /\ req.id \in DOMAIN stocks
    /\ stocks[req.id].symbol # req.body.symbol
    /\ resp.status = 400

===========================================================================
